---------------------------- MODULE Spec2Model ----------------------------
(***************************************************************************)
(* Model of the site deployment engine of mrm-webpanel                     *)
(* (src/panel/engines/docker_engine.py, class DockerEngine).               *)
(*                                                                         *)
(* One DockerEngine for one domain.  deploy() runs on a background thread  *)
(* whose position is pc; destroy() runs on a request thread whose position *)
(* is dpc.  A position is the number of the source line the thread         *)
(* executes next (0: not running / returned), so that each action below is *)
(* one statement, or one call of an external command, of the source.       *)
(* External commands and filesystem calls are the environment: each        *)
(* chooses its outcome nondeterministically.                               *)
(*                                                                         *)
(* migrate_existing_deployment also runs at pc, with the stop_container it *)
(* calls at dpc; the bulk migration of app.py (migrate_deployments) runs   *)
(* at mpc.  Specifications: Spec (deploy), SpecDestroy (destroy, called    *)
(* up to MaxDestroys times), SpecAll (either), SpecHealth (the health      *)
(* prober alone, with a clock that also advances during the probes),       *)
(* SpecMigrate (one migration) and SpecBulk (the bulk migration).          *)
(***************************************************************************)
EXTENDS Integers, Sequences, FiniteSets, TLC

(* ------------------------------ bounds -------------------------------- *)

\* site ids issued by the persistence layer are 1..MaxSiteId
MaxSiteId == 2
\* non-blank lines the orchestration tool prints during `compose up`
MaxLines == 2
\* the timeout deploy passes to wait_for_container_health, in seconds,
\* scaled down from 300 so that the poll loop stays small
HealthTimeout == 20
\* sites the query of migrate_deployments selects
MaxSites == 3
\* destroy calls made on one site, one after the other
MaxDestroys == 2

(* ------------------------- program constants -------------------------- *)

BASE_PORT == 3000
PollInterval == 2
LogEvery == 10
PhpContainerPort == 80
DefaultContainerPort == 3000

Done == 0

Runtimes == {"node", "python", "php", "ruby"}
SupportedRuntimes == {"node", "python", "php"}
Boilerplates == {"blank", "wordpress"}
SiteIds == 1..MaxSiteId

\* A line of tool output, by the first branch of lines 529-537 it matches:
\* "Pulling" stands for a line containing Pulling or Downloading,
\* "Creating" for Creating or Starting, "Started" for Started or Created.
OutputLines == {"Pulling", "Creating", "Started", "other"}

\* outcomes of subprocess.run(..., check=True)
ProcOutcomes == {"ok", "CalledProcessError", "OSError"}

NoManifest == [upstream_port |-> 0, container_port |-> 0]
NoConf == 0
\* no response has been sent
NoResponse == 0
\* no health poll has run
NoProbe == [up |-> "none", get |-> "none", http |-> "none", first_ok |-> 0]
\* stop_container has not been called
NoStop == [running |-> FALSE, manifest |-> FALSE, path |-> "none",
           raised |-> FALSE]
\* no destroy call has returned yet
NoCall == [ret |-> "none", site_dir |-> FALSE, manifest |-> NoManifest,
           available |-> NoConf, enabled |-> "absent", running |-> FALSE]

VARIABLES
    \* constructor arguments and the template directory
    runtime, boilerplate, site_id, template_exists,
    \* whether the domain had been deployed when the Engine was made
    existing,
    \* the method called on the Engine: "deploy", "destroy",
    \* "wait_for_container_health" or "migrate_existing_deployment"
    caller,
    \* Deployment State Tracker
    deployment_phase, deployment_progress, deployment_logs,
    \* filesystem, proxy and container
    \* scaffold: "absent", "old" (written by an earlier deployment) or
    \* "generated" (written by this Engine)
    site_dir_exists, scaffold, compose_file,
    nginx_available, nginx_enabled, container_running,
    \* deploy thread
    pc, lines_read, line, attempt, elapsed, exc,
    \* results and history of the run
    trace, step_failed, start_ret, health_ret, reload_ret, deploy_ret,
    progress_dropped, nginx_written, nginx_reloads,
    \* destroy thread
    dpc, errors, pattern, stop_ret, destroy_ret,
    \* destroy calls made on the site so far, and what the previous one left
    calls, prev,
    \* what the running stop_container call met: the site at the call, the
    \* branch taken and whether a tool invocation raised
    stop_obs,
    \* what the current health poll met, and the number of the first poll
    \* that found the container up and answering (0: none yet)
    probe,
    \* the result of the latest validate_nginx_config call ("none" before
    \* the first and once the step that made the call is over)
    validated,
    \* the value migrate_existing_deployment returned
    migrate_ret,
    \* migrate_deployments (app.py): the number of selected sites, the index
    \* of the site in hand, the locals of lines 562-564, what happened to
    \* each site, and the position of the request handler
    total_sites, site, migrated_count, failed_count, failed_sites,
    site_result, mpc,
    \* the panel (app.py): the keys of the live-deployment registry, the
    \* status column of the site's record ("none": no record), the statuses
    \* the deploy worker has written, the position of create_site and of
    \* its deploy worker, and the HTTP status delete_site answered with
    active_deployments, status, written, wpc, response,
    \* a function called on its own: its arguments and what it returned
    args, result

config == <<runtime, boilerplate, site_id, template_exists, existing,
           caller>>
tracker == <<deployment_phase, deployment_progress, deployment_logs,
             progress_dropped>>
files == <<site_dir_exists, scaffold, compose_file>>
proxy == <<nginx_available, nginx_enabled, nginx_written, nginx_reloads>>
loopv == <<lines_read, line, attempt, elapsed>>
rets == <<start_ret, health_ret, reload_ret, deploy_ret>>
hist == <<trace, step_failed>>
destroyv == <<dpc, errors, pattern, stop_ret, destroy_ret>>
bulk == <<total_sites, site, migrated_count, failed_count, failed_sites,
          site_result, mpc>>
panel == <<active_deployments, status, written, wpc, response, args,
           result>>
aux == <<calls, prev, stop_obs, probe, validated, migrate_ret, bulk,
         panel>>
\* aux but for stop_obs, but for probe, but for validated, but for
\* migrate_ret
aux_stop == <<calls, prev, probe, validated, migrate_ret, bulk,
    panel>>
aux_probe == <<calls, prev, stop_obs, validated, migrate_ret, bulk,
    panel>>
aux_validated == <<calls, prev, stop_obs, probe, migrate_ret, bulk,
    panel>>
aux_migrate == <<calls, prev, stop_obs, probe, validated, bulk,
    panel>>

vars == <<config, tracker, files, proxy, container_running, pc, loopv, exc,
          rets, hist, destroyv, aux>>

\* migrate_deployments is not running
NoBulk ==
    /\ total_sites = 0
    /\ site = 0
    /\ migrated_count = 0
    /\ failed_count = 0
    /\ failed_sites = <<>>
    /\ site_result = <<>>
    /\ mpc = Done

\* no request of the panel is being handled and no function is called on
\* its own
NoPanel ==
    /\ active_deployments = {}
    /\ status = "none"
    /\ written = <<>>
    /\ wpc = Done
    /\ response = NoResponse
    /\ args = <<>>
    /\ result = "none"

\* delete_site has found the record of the site (lines 1338-1340) and is
\* about to make the Engine and call destroy
SiteFound ==
    /\ active_deployments = {}
    /\ status = "active"
    /\ written = <<>>
    /\ wpc = Done
    /\ response = NoResponse
    /\ args = <<>>
    /\ result = "none"

(* ------------------------------ __init__ ------------------------------ *)

\* self.upstream_port = 3000 + int(self.site_id)
upstream_port == BASE_PORT + site_id

\* _get_container_port
_get_container_port == IF runtime = "php" THEN PhpContainerPort
                       ELSE DefaultContainerPort

\* _select_compose_template without the runtime test of line 88
_select_compose_template_by_boilerplate ==
    IF boilerplate = "wordpress"
    THEN "docker-compose.wordpress.tpl"
    ELSE IF runtime = "php" THEN "docker-compose.php.tpl"
    ELSE IF runtime = "python" THEN "docker-compose.python.tpl"
    ELSE IF runtime = "node" THEN "docker-compose.node.tpl"
    ELSE "ValueError"

\* _select_compose_template: the template name, or "ValueError"
_select_compose_template ==
    IF runtime = "php" /\ boilerplate = "wordpress"
    THEN "docker-compose.wordpress.tpl"
    ELSE IF runtime = "php" THEN "docker-compose.php.tpl"
    ELSE IF runtime = "python" THEN "docker-compose.python.tpl"
    ELSE IF runtime = "node" THEN "docker-compose.node.tpl"
    ELSE "ValueError"

\* a log entry: the message and the text interpolated into it (the
\* timestamp prefix of _add_deployment_log is left out)
Entry(text, detail) == <<text, detail>>

Min(a, b) == IF a < b THEN a ELSE b

(* ------------------- statements on the state tracker ------------------ *)

\* self.deployment_phase = p, at line `at`, continuing at line `to`
SetPhase(at, p, to) ==
    /\ pc = at
    /\ deployment_phase' = p
    /\ pc' = to
    /\ UNCHANGED <<deployment_progress, deployment_logs, progress_dropped>>
    /\ UNCHANGED <<aux, config, files, proxy, container_running, loopv, exc,
                   rets, hist, destroyv>>

\* self.deployment_progress = n
SetProgress(at, n, to) ==
    /\ pc = at
    /\ deployment_progress' = n
    /\ progress_dropped' = (progress_dropped \/ n < deployment_progress)
    /\ pc' = to
    /\ UNCHANGED <<deployment_phase, deployment_logs>>
    /\ UNCHANGED <<aux, config, files, proxy, container_running, loopv, exc,
                   rets, hist, destroyv>>

\* self._add_deployment_log(...)
_add_deployment_log(at, entry, to) ==
    /\ pc = at
    /\ deployment_logs' = Append(deployment_logs, entry)
    /\ pc' = to
    /\ UNCHANGED <<deployment_phase, deployment_progress, progress_dropped>>
    /\ UNCHANGED <<aux, config, files, proxy, container_running, loopv, exc,
                   rets, hist, destroyv>>

\* the step named s raised or returned failure
Fails(s) == step_failed' = step_failed \cup {s}
\* the step named s is entered
Enters(s) == trace' = Append(trace, s)

(* ------------------------------- deploy ------------------------------- *)

deploy_631 == SetPhase(631, "initializing", 632)
deploy_632 == SetProgress(632, 0, 633)
deploy_633 == _add_deployment_log(633, Entry("Starting deployment for", "domain"), 635)
deploy_635 == SetPhase(635, "creating_directories", 636)
deploy_636 == SetProgress(636, 5, 637)

\* self.create_directories(): os.makedirs of data_dir and site_dir, which
\* raise OSError on failure
deploy_637 ==
    /\ pc = 637
    /\ Enters("create_directories")
    /\ \E ok \in BOOLEAN :
          IF ok
          THEN /\ site_dir_exists' = TRUE
               /\ pc' = 638
               /\ UNCHANGED <<exc, step_failed>>
          ELSE /\ exc' = "OSError"
               /\ Fails("create_directories")
               /\ pc' = 677
               /\ UNCHANGED site_dir_exists
    /\ UNCHANGED <<aux, config, tracker, scaffold, compose_file, proxy,
                   container_running, loopv, rets, destroyv>>

deploy_638 == _add_deployment_log(638, Entry("Created site directories", ""), 640)
deploy_640 == SetPhase(640, "creating_boilerplate", 641)
deploy_641 == _add_deployment_log(641, Entry("Creating boilerplate code", boilerplate), 642)

\* whether create_boilerplate writes a scaffold for this engine
WritesScaffold ==
    \/ runtime \in {"node", "python"}
    \/ runtime = "php" /\ boilerplate # "wordpress"

\* self.create_boilerplate(): the writes of the scaffold run inside
\* try/except Exception, which logs and returns normally
create_boilerplate ==
    /\ Enters("create_boilerplate")
    /\ IF WritesScaffold
       THEN \E ok \in BOOLEAN :
               IF ok
               THEN scaffold' = "generated" /\ UNCHANGED step_failed
               ELSE UNCHANGED scaffold /\ Fails("create_boilerplate")
       ELSE UNCHANGED <<scaffold, step_failed>>

deploy_642 ==
    /\ pc = 642
    /\ create_boilerplate
    /\ pc' = 644
    /\ UNCHANGED <<aux, config, tracker, site_dir_exists, compose_file, proxy,
                   container_running, loopv, exc, rets, destroyv>>

deploy_644 == SetPhase(644, "generating_compose", 645)
deploy_645 == _add_deployment_log(645, Entry("Generating docker-compose configuration", ""), 646)

\* ComposeError without the os.path.exists test of line 400
ComposeError_no_exists_test ==
    IF _select_compose_template = "ValueError" THEN "Unknown runtime" ELSE ""

\* the exception generate_compose_file raises before it writes, "" if none
ComposeError ==
    IF _select_compose_template = "ValueError" THEN "Unknown runtime"
    ELSE IF ~template_exists THEN "Template not found"
    ELSE ""

\* self.generate_compose_file(): the template is selected and looked up,
\* then read, substituted and written to compose.yml (lines 403-416, which
\* raise OSError when a file cannot be opened) and made owner-only (line
\* 418); the caller goes on at line `to`, or at `handler` on an exception
generate_compose_file(to, handler) ==
    /\ Enters("generate_compose_file")
    /\ IF ComposeError # ""
       THEN /\ exc' = ComposeError
            /\ Fails("generate_compose_file")
            /\ pc' = handler
            /\ UNCHANGED compose_file
       ELSE \E o \in {"ok", "open raises", "chmod raises"} :
               /\ compose_file' =
                     IF o = "open raises" THEN compose_file
                     ELSE [upstream_port |-> upstream_port,
                           container_port |-> _get_container_port]
               /\ IF o = "ok"
                  THEN /\ pc' = to
                       /\ UNCHANGED <<exc, step_failed>>
                  ELSE /\ exc' = "OSError"
                       /\ Fails("generate_compose_file")
                       /\ pc' = handler

\* line 646; on success deploy goes on to start_container (line 649 calls
\* it, line 507 is its first statement), on an exception to line 677
deploy_646 ==
    /\ pc = 646
    /\ generate_compose_file(507, 677)
    /\ UNCHANGED <<aux, config, tracker, site_dir_exists, scaffold, proxy,
                   container_running, loopv, rets, destroyv>>

(* --------------------------- start_container -------------------------- *)

\* the first statement of start_container, called by line 649
start_507 ==
    /\ pc = 507
    /\ Enters("start_container")
    /\ deployment_phase' = "pulling_image"
    /\ pc' = 508
    /\ UNCHANGED <<deployment_progress, deployment_logs, progress_dropped>>
    /\ UNCHANGED <<aux, config, files, proxy, container_running, loopv, exc,
                   rets, step_failed, destroyv>>

start_508 == SetProgress(508, 10, 509)
start_509 == _add_deployment_log(509, Entry("Starting deployment for", "domain"), 510)
start_510 == _add_deployment_log(510, Entry("Using Docker image", ""), 513)

\* subprocess.Popen(['docker', 'compose', ..., 'up', '-d']): raises OSError
\* when the tool cannot be run
start_513 ==
    /\ pc = 513
    /\ \E ok \in BOOLEAN :
          IF ok THEN pc' = 523 /\ UNCHANGED exc
                ELSE pc' = 553 /\ exc' = "OSError"
    /\ UNCHANGED <<aux, config, tracker, files, proxy, container_running, loopv,
                   rets, hist, destroyv>>

\* for line in process.stdout: the next non-blank line, the end of the
\* output, or an error reading it
start_523 ==
    /\ pc = 523
    /\ \/ /\ lines_read < MaxLines
          /\ \E l \in OutputLines : line' = l
          /\ lines_read' = lines_read + 1
          /\ pc' = 526
          /\ UNCHANGED exc
       \/ /\ pc' = 539
          /\ UNCHANGED <<line, lines_read, exc>>
       \/ /\ pc' = 553
          /\ exc' = "OSError"
          /\ UNCHANGED <<line, lines_read>>
    /\ UNCHANGED <<aux, config, tracker, files, proxy, container_running, attempt,
                   elapsed, rets, hist, destroyv>>

start_526 == _add_deployment_log(526, Entry("output", line), 529)

\* lines 529-537: the phase the line selects, and the line that sets the
\* progress next (back to the loop when no branch matches)
start_529 ==
    /\ pc = 529
    /\ IF line = "Pulling"
       THEN deployment_phase' = "pulling_image" /\ pc' = 531
       ELSE IF line = "Creating"
       THEN deployment_phase' = "starting_container" /\ pc' = 534
       ELSE IF line = "Started"
       THEN deployment_phase' = "container_started" /\ pc' = 537
       ELSE UNCHANGED deployment_phase /\ pc' = 523
    /\ UNCHANGED <<deployment_progress, deployment_logs, progress_dropped>>
    /\ UNCHANGED <<aux, config, files, proxy, container_running, loopv, exc,
                   rets, hist, destroyv>>

start_531 == SetProgress(531, Min(deployment_progress + 5, 60), 523)
start_534 == SetProgress(534, 70, 523)
start_537 == SetProgress(537, 80, 523)

\* process.wait() and the test of process.returncode
start_539 ==
    /\ pc = 539
    /\ \E rc \in {0, 1} :
          IF rc # 0
          THEN pc' = 542 /\ UNCHANGED container_running
          ELSE pc' = 546 /\ container_running' = TRUE
    /\ UNCHANGED <<aux, config, tracker, files, proxy, loopv, exc, rets, hist,
                   destroyv>>

\* the return of start_container to line 649 of deploy; its locals end
StartReturns(r) ==
    /\ start_ret' = r
    /\ lines_read' = 0
    /\ line' = ""
    /\ UNCHANGED <<attempt, elapsed>>
    /\ IF r = "False" THEN Fails("start_container") ELSE UNCHANGED step_failed
    /\ pc' = IF caller = "migrate_existing_deployment" THEN 133 ELSE 649
    /\ UNCHANGED <<health_ret, reload_ret, deploy_ret, trace>>

\* lines 542-544: log the exit code, return False
start_542 ==
    /\ pc = 542
    /\ deployment_logs' = Append(deployment_logs,
           Entry("ERROR: Container startup failed with exit code", "1"))
    /\ StartReturns("False")
    /\ UNCHANGED <<deployment_phase, deployment_progress, progress_dropped>>
    /\ UNCHANGED <<aux, config, files, proxy, container_running, exc,
                   destroyv>>

start_546 == SetPhase(546, "installing_dependencies", 547)
start_547 == SetProgress(547, 85, 548)

\* lines 548-550: log, return True
start_548 ==
    /\ pc = 548
    /\ deployment_logs' = Append(deployment_logs,
           Entry("Container started, waiting for application to be ready...", ""))
    /\ StartReturns("True")
    /\ UNCHANGED <<deployment_phase, deployment_progress, progress_dropped>>
    /\ UNCHANGED <<aux, config, files, proxy, container_running, exc,
                   destroyv>>

\* lines 552-556: except Exception: log the error, return False
start_553 ==
    /\ pc = 553
    /\ deployment_logs' = Append(deployment_logs, Entry("ERROR:", exc))
    /\ exc' = ""
    /\ StartReturns("False")
    /\ UNCHANGED <<deployment_phase, deployment_progress, progress_dropped>>
    /\ UNCHANGED <<aux, config, files, proxy, container_running, destroyv>>

\* if not self.start_container(): on success deploy calls
\* wait_for_container_health (line 655), whose first statement is line 762
deploy_649 ==
    /\ pc = 649
    /\ pc' = IF start_ret = "True" THEN 762 ELSE 651
    /\ UNCHANGED <<aux, config, tracker, files, proxy, container_running, loopv,
                   exc, rets, hist, destroyv>>

\* a return of deploy
DeployReturns(r) ==
    /\ deploy_ret' = r
    /\ pc' = Done
    /\ UNCHANGED <<start_ret, health_ret, reload_ret>>

\* self.deployment_phase = 'failed'; return False
FailAndReturn(at) ==
    /\ pc = at
    /\ deployment_phase' = "failed"
    /\ DeployReturns("False")
    /\ UNCHANGED <<deployment_progress, deployment_logs, progress_dropped>>
    /\ UNCHANGED <<aux, config, files, proxy, container_running, loopv, exc,
                   hist, destroyv>>

deploy_651 == FailAndReturn(651)

(* ---------------------- wait_for_container_health --------------------- *)

\* wait_762 setting the phase of the step before it
wait_762_starting_container ==
    /\ pc = 762
    /\ Enters("wait_for_container_health")
    /\ deployment_phase' = "starting_container"
    /\ pc' = 763
    /\ UNCHANGED <<deployment_progress, deployment_logs, progress_dropped>>
    /\ UNCHANGED <<aux, config, files, proxy, container_running, loopv, exc,
                   rets, step_failed, destroyv>>

wait_762 ==
    /\ pc = 762
    /\ Enters("wait_for_container_health")
    /\ deployment_phase' = "checking_health"
    /\ pc' = 763
    /\ UNCHANGED <<deployment_progress, deployment_logs, progress_dropped>>
    /\ UNCHANGED <<aux, config, files, proxy, container_running, loopv, exc,
                   rets, step_failed, destroyv>>

wait_763 == SetProgress(763, 90, 764)

\* lines 764-768: log, start_time = time.time(), attempt = 0
wait_764 ==
    /\ pc = 764
    /\ deployment_logs' = Append(deployment_logs,
           Entry("Waiting for container to become healthy", "timeout"))
    /\ elapsed' = 0
    /\ attempt' = 0
    /\ probe' = NoProbe
    /\ pc' = 769
    /\ UNCHANGED <<deployment_phase, deployment_progress, progress_dropped>>
    /\ UNCHANGED <<aux_probe, config, files, proxy, container_running, lines_read, line,
                   exc, rets, hist, destroyv>>

\* while time.time() - start_time < timeout
wait_769 ==
    /\ pc = 769
    /\ pc' = IF elapsed < HealthTimeout THEN 770 ELSE 827
    /\ UNCHANGED <<aux, config, tracker, files, proxy, container_running, loopv,
                   exc, rets, hist, destroyv>>

\* lines 770-781: attempt += 1, then `docker ps` for <domain>-app: the
\* container is Up, is not, or the command fails (caught at line 822)
wait_770 ==
    /\ pc = 770
    /\ attempt' = attempt + 1
    /\ \E r \in {"Up", "not up", "error"} :
          /\ probe' = [probe EXCEPT !.up = r]
          /\ pc' = IF r = "Up" THEN 799 ELSE IF r = "not up" THEN 819 ELSE 825
    /\ UNCHANGED <<aux_probe, config, tracker, files, proxy, container_running,
                   lines_read, line, elapsed, exc, rets, hist, destroyv>>

\* health_endpoint without the PHP branch of lines 788-789
health_endpoint_health_only == "/health"

\* lines 786-791: PHP has no /health, so the root is requested instead
health_endpoint == IF runtime = "php" THEN "/" ELSE "/health"

\* the server answered the GET: urlopen returned, or raised HTTPError
\* because the answer has an error status such as 404 or 500
Answered(r) == r \in {"response", "HTTPError"}

\* wait_799 with the HTTPError of line 799 taken as a failed poll
wait_799_http_error_fails ==
    /\ pc = 799
    /\ \E r \in {"response", "HTTPError", "URLError", "other"} :
          /\ probe' = [probe EXCEPT
                          !.get = health_endpoint,
                          !.http = r,
                          !.first_ok = IF Answered(r) THEN attempt ELSE @]
          /\ pc' = IF r \in {"URLError", "HTTPError"} THEN 814
                   ELSE IF r = "other" THEN 825 ELSE 807
    /\ UNCHANGED <<aux_probe, config, tracker, files, proxy,
                   container_running, loopv, exc, rets, hist, destroyv>>

\* lines 793-803: GET http://127.0.0.1:<upstream_port><health_endpoint>
\* with urlopen(req, timeout=2): a response, an HTTPError (swallowed at
\* line 799), a connection-level failure (URLError, OSError: line 812), or
\* another exception (line 822)
wait_799 ==
    /\ pc = 799
    /\ \E r \in {"response", "HTTPError", "URLError", "other"} :
          /\ probe' = [probe EXCEPT
                          !.get = health_endpoint,
                          !.http = r,
                          !.first_ok = IF Answered(r) THEN attempt ELSE @]
          /\ pc' = IF r = "URLError" THEN 814
                   ELSE IF r = "other" THEN 825 ELSE 807
    /\ UNCHANGED <<aux_probe, config, tracker, files, proxy, container_running, loopv,
                   exc, rets, hist, destroyv>>

wait_807 == _add_deployment_log(807, Entry("Container is healthy and responding on port", "upstream_port"), 809)
wait_809 == SetPhase(809, "healthy", 810)

\* the return of wait_for_container_health to line 655 of deploy; its
\* locals end
HealthReturns(r) ==
    /\ health_ret' = r
    /\ attempt' = 0
    /\ elapsed' = 0
    /\ probe' = NoProbe
    /\ UNCHANGED <<lines_read, line>>
    /\ IF r = "False" THEN Fails("wait_for_container_health")
                      ELSE UNCHANGED step_failed
    /\ pc' = 655
    /\ UNCHANGED <<start_ret, reload_ret, deploy_ret, trace>>

\* lines 810-811: progress 95, return True
wait_810 ==
    /\ pc = 810
    /\ deployment_progress' = 95
    /\ progress_dropped' = (progress_dropped \/ 95 < deployment_progress)
    /\ HealthReturns("True")
    /\ UNCHANGED <<deployment_phase, deployment_logs>>
    /\ UNCHANGED <<aux_probe, config, files, proxy, container_running, exc,
                   destroyv>>

\* lines 814-817: every LogEvery-th attempt logs that the application does
\* not answer yet
wait_814 ==
    /\ pc = 814
    /\ deployment_logs' =
          IF attempt % LogEvery = 0
          THEN Append(deployment_logs,
                      Entry("Waiting for application to start responding on port", "upstream_port"))
          ELSE deployment_logs
    /\ pc' = 825
    /\ UNCHANGED <<deployment_phase, deployment_progress, progress_dropped>>
    /\ UNCHANGED <<aux, config, files, proxy, container_running, loopv, exc,
                   rets, hist, destroyv>>

\* lines 819-820: every LogEvery-th attempt logs that the container is
\* not up yet
wait_819 ==
    /\ pc = 819
    /\ deployment_logs' =
          IF attempt % LogEvery = 0
          THEN Append(deployment_logs, Entry("Waiting for container to start...", ""))
          ELSE deployment_logs
    /\ pc' = 825
    /\ UNCHANGED <<deployment_phase, deployment_progress, progress_dropped>>
    /\ UNCHANGED <<aux, config, files, proxy, container_running, loopv, exc,
                   rets, hist, destroyv>>

\* time.sleep(poll_interval); elapsed counts the time slept, the least the
\* clock of line 769 has advanced
wait_825 ==
    /\ pc = 825
    /\ elapsed' = elapsed + PollInterval
    /\ probe' = [NoProbe EXCEPT !.first_ok = probe.first_ok]
    /\ pc' = 769
    /\ UNCHANGED <<aux_probe, config, tracker, files, proxy, container_running,
                   lines_read, line, attempt, exc, rets, hist, destroyv>>

\* lines 827-829: log the timeout, return False
wait_827 ==
    /\ pc = 827
    /\ deployment_logs' = Append(deployment_logs,
           Entry("ERROR: Container did not become healthy within", "timeout"))
    /\ HealthReturns("False")
    /\ UNCHANGED <<deployment_phase, deployment_progress, progress_dropped>>
    /\ UNCHANGED <<aux_probe, config, files, proxy, container_running, exc,
                   destroyv>>

\* deploy_655 without the test of the health result
deploy_655_ignores_health ==
    /\ pc = 655
    /\ pc' = 661
    /\ UNCHANGED <<aux, config, tracker, files, proxy, container_running, loopv,
                   exc, rets, hist, destroyv>>

\* if not self.wait_for_container_health(timeout=300)
deploy_655 ==
    /\ pc = 655
    /\ pc' = IF health_ret = "True" THEN 661 ELSE 657
    /\ UNCHANGED <<aux, config, tracker, files, proxy, container_running, loopv,
                   exc, rets, hist, destroyv>>

\* deploy_657 without the phase: return False with the phase of the wait
deploy_657_returns_only ==
    /\ pc = 657
    /\ DeployReturns("False")
    /\ UNCHANGED <<aux, config, tracker, files, proxy, container_running,
                   loopv, exc, hist, destroyv>>

deploy_657 == FailAndReturn(657)

(* -------------------- generate_nginx_config, reload -------------------- *)

deploy_661 == SetPhase(661, "configuring_nginx", 662)
deploy_662 == SetProgress(662, 97, 663)
\* line 663 logs; line 664 calls generate_nginx_config, whose first
\* filesystem call is line 469
deploy_663 == _add_deployment_log(663, Entry("Configuring nginx reverse proxy", ""), 469)

\* an exception of generate_nginx_config or reload_nginx reaches the
\* except clause of deploy (line 676)
RaiseInDeploy(s, e) ==
    /\ exc' = e
    /\ Fails(s)
    /\ pc' = 677

\* os.path.exists(nginx_enabled_link): exists() follows a symlink
EnabledExists ==
    \/ nginx_enabled = "file"
    \/ nginx_enabled = "symlink" /\ nginx_available # NoConf

\* lines 468-470: write the config with the upstream port to sites-available
nginx_469 ==
    /\ pc = 469
    /\ Enters("generate_nginx_config")
    /\ \E ok \in BOOLEAN :
          IF ok
          THEN /\ nginx_available' = upstream_port
               /\ nginx_written' = TRUE
               /\ pc' = 472
               /\ UNCHANGED <<exc, step_failed>>
          ELSE /\ RaiseInDeploy("generate_nginx_config", "OSError")
               /\ UNCHANGED <<nginx_available, nginx_written>>
    /\ UNCHANGED <<aux, config, tracker, files, nginx_enabled, nginx_reloads,
                   container_running, loopv, rets, destroyv>>

\* os.chmod(nginx_file, 0o644)
nginx_472 ==
    /\ pc = 472
    /\ \E ok \in BOOLEAN :
          IF ok THEN pc' = 476 /\ UNCHANGED <<exc, step_failed>>
                ELSE RaiseInDeploy("generate_nginx_config", "OSError")
    /\ UNCHANGED <<aux, config, tracker, files, proxy, container_running, loopv,
                   rets, trace, destroyv>>

\* if os.path.exists(nginx_enabled_link)
nginx_476 ==
    /\ pc = 476
    /\ pc' = IF EnabledExists THEN 477 ELSE 478
    /\ UNCHANGED <<aux, config, tracker, files, proxy, container_running, loopv,
                   exc, rets, hist, destroyv>>

\* os.remove(nginx_enabled_link)
nginx_477 ==
    /\ pc = 477
    /\ \E ok \in BOOLEAN :
          IF ok
          THEN /\ nginx_enabled' = "absent"
               /\ pc' = 478
               /\ UNCHANGED <<exc, step_failed>>
          ELSE /\ RaiseInDeploy("generate_nginx_config", "OSError")
               /\ UNCHANGED nginx_enabled
    /\ UNCHANGED <<aux, config, tracker, files, nginx_available, nginx_written,
                   nginx_reloads, container_running, loopv, rets, trace,
                   destroyv>>

\* os.symlink(nginx_file, nginx_enabled_link), which raises FileExistsError
\* when the link is there; then deploy calls reload_nginx (line 666), whose
\* first statement is line 495
nginx_478 ==
    /\ pc = 478
    /\ \E ok \in BOOLEAN :
          IF ok /\ nginx_enabled = "absent"
          THEN /\ nginx_enabled' = "symlink"
               /\ pc' = 495
               /\ UNCHANGED <<exc, step_failed>>
          ELSE /\ RaiseInDeploy("generate_nginx_config", "OSError")
               /\ UNCHANGED nginx_enabled
    /\ UNCHANGED <<aux, config, tracker, files, nginx_available, nginx_written,
                   nginx_reloads, container_running, loopv, rets, trace,
                   destroyv>>

\* validate_nginx_config on an outcome of `nginx -t`: CalledProcessError is
\* caught (return False), any other exception leaves the method
validate_nginx_config(outcome) ==
    IF outcome = "ok" THEN "True"
    ELSE IF outcome = "CalledProcessError" THEN "False"
    ELSE "raise"

\* lines 497-502 of reload_nginx on an outcome of `systemctl reload nginx`
systemctl_reload(outcome) ==
    IF outcome = "ok" THEN "True"
    ELSE IF outcome = "CalledProcessError" THEN "False"
    ELSE "raise"

\* the return of reload_nginx to line 666 of deploy
ReloadReturns(r) ==
    /\ reload_ret' = r
    /\ IF r = "False" THEN Fails("reload_nginx") ELSE UNCHANGED step_failed
    /\ pc' = 666
    /\ UNCHANGED <<start_ret, health_ret, deploy_ret, exc>>

\* reload_495 going on to the reload command whatever `nginx -t` said
reload_495_ignores_validation ==
    /\ pc = 495
    /\ Enters("reload_nginx")
    /\ \E o \in ProcOutcomes :
          LET v == validate_nginx_config(o) IN
          /\ validated' = v
          /\ IF v \in {"True", "False"}
             THEN /\ pc' = 497
                  /\ UNCHANGED <<exc, step_failed, rets>>
             ELSE /\ RaiseInDeploy("reload_nginx", "OSError")
                  /\ UNCHANGED rets
    /\ UNCHANGED <<aux_validated, config, tracker, files, proxy,
                   container_running, loopv, destroyv>>

\* lines 495-496 of reload_nginx: if not self.validate_nginx_config():
\* return False
reload_495 ==
    /\ pc = 495
    /\ Enters("reload_nginx")
    /\ \E o \in ProcOutcomes :
          LET v == validate_nginx_config(o) IN
          /\ validated' = v
          /\ IF v = "True"
             THEN /\ pc' = 497
                  /\ UNCHANGED <<exc, step_failed, rets>>
             ELSE IF v = "False"
             THEN ReloadReturns("False")
             ELSE /\ RaiseInDeploy("reload_nginx", "OSError")
                  /\ UNCHANGED rets
    /\ UNCHANGED <<aux_validated, config, tracker, files, proxy, container_running, loopv,
                   destroyv>>

\* lines 497-502 of reload_nginx: reload the live proxy
reload_497 ==
    /\ pc = 497
    /\ \E o \in ProcOutcomes :
          LET r == systemctl_reload(o) IN
          IF r = "True"
          THEN /\ nginx_reloads' = nginx_reloads + 1
               /\ ReloadReturns("True")
          ELSE IF r = "False"
          THEN /\ ReloadReturns("False")
               /\ UNCHANGED nginx_reloads
          ELSE /\ RaiseInDeploy("reload_nginx", "OSError")
               /\ UNCHANGED <<rets, nginx_reloads>>
    /\ UNCHANGED <<aux, config, tracker, files, nginx_available, nginx_enabled,
                   nginx_written, container_running, loopv, trace, destroyv>>

\* if not self.reload_nginx()
deploy_666 ==
    /\ pc = 666
    /\ pc' = IF reload_ret = "True" THEN 671 ELSE 668
    /\ UNCHANGED <<aux, config, tracker, files, proxy, container_running, loopv,
                   exc, rets, hist, destroyv>>

deploy_668 == FailAndReturn(668)

deploy_671 == SetPhase(671, "completed", 672)
deploy_672 == SetProgress(672, 100, 673)

\* lines 673-675: log the success, return True
deploy_673 ==
    /\ pc = 673
    /\ deployment_logs' = Append(deployment_logs,
           Entry("Successfully deployed on port", "upstream_port"))
    /\ DeployReturns("True")
    /\ UNCHANGED <<deployment_phase, deployment_progress, progress_dropped>>
    /\ UNCHANGED <<aux, config, files, proxy, container_running, loopv, exc,
                   hist, destroyv>>

\* except Exception as e: self.deployment_phase = 'failed'
deploy_677 == SetPhase(677, "failed", 678)

\* lines 678-680: log the exception, return False
deploy_678 ==
    /\ pc = 678
    /\ deployment_logs' = Append(deployment_logs,
           Entry("ERROR: Deployment failed:", exc))
    /\ DeployReturns("False")
    /\ UNCHANGED <<deployment_phase, deployment_progress, progress_dropped>>
    /\ UNCHANGED <<aux, config, files, proxy, container_running, loopv, exc,
                   hist, destroyv>>

(* -------------------------- the deploy system ------------------------- *)

\* the state a DockerEngine is constructed in (lines 44-47), before the
\* worker thread of create_site calls deploy; the domain was never deployed
\* or was deployed before (its directory, manifest and proxy config exist)
Init ==
    /\ runtime \in Runtimes
    /\ boilerplate \in Boilerplates
    /\ site_id \in SiteIds
    /\ template_exists \in BOOLEAN
    /\ deployment_phase = "initializing"
    /\ deployment_progress = 0
    /\ deployment_logs = <<>>
    /\ progress_dropped = FALSE
    /\ caller = "deploy"
    /\ \E before \in BOOLEAN :
          /\ existing = before
          /\ site_dir_exists = before
          /\ scaffold = IF before THEN "old" ELSE "absent"
          /\ compose_file = IF before
                            THEN [upstream_port |-> BASE_PORT + 1,
                                  container_port |-> DefaultContainerPort]
                            ELSE NoManifest
          /\ nginx_available = IF before THEN BASE_PORT + 1 ELSE NoConf
          /\ nginx_enabled = IF before THEN "symlink" ELSE "absent"
          /\ container_running = before
    /\ nginx_written = FALSE
    /\ nginx_reloads = 0
    /\ pc = 631
    /\ lines_read = 0
    /\ line = ""
    /\ attempt = 0
    /\ elapsed = 0
    /\ exc = ""
    /\ trace = <<>>
    /\ step_failed = {}
    /\ start_ret = "none"
    /\ health_ret = "none"
    /\ reload_ret = "none"
    /\ deploy_ret = "none"
    /\ dpc = Done
    /\ errors = <<>>
    /\ pattern = 0
    /\ stop_ret = "none"
    /\ destroy_ret = "none"
    /\ calls = 0
    /\ prev = NoCall
    /\ stop_obs = NoStop
    /\ probe = NoProbe
    /\ validated = "none"
    /\ migrate_ret = "none"
    /\ NoBulk
    /\ NoPanel

Next ==
    \/ deploy_631 \/ deploy_632 \/ deploy_633 \/ deploy_635 \/ deploy_636
    \/ deploy_637 \/ deploy_638 \/ deploy_640 \/ deploy_641 \/ deploy_642
    \/ deploy_644 \/ deploy_645 \/ deploy_646
    \/ start_507 \/ start_508 \/ start_509 \/ start_510 \/ start_513
    \/ start_523 \/ start_526 \/ start_529 \/ start_531 \/ start_534
    \/ start_537 \/ start_539 \/ start_542 \/ start_546 \/ start_547
    \/ start_548 \/ start_553
    \/ deploy_649 \/ deploy_651
    \/ wait_762 \/ wait_763 \/ wait_764 \/ wait_769 \/ wait_770 \/ wait_799
    \/ wait_807 \/ wait_809 \/ wait_810 \/ wait_814 \/ wait_819 \/ wait_825
    \/ wait_827
    \/ deploy_655 \/ deploy_657
    \/ deploy_661 \/ deploy_662 \/ deploy_663
    \/ nginx_469 \/ nginx_472 \/ nginx_476 \/ nginx_477 \/ nginx_478
    \/ reload_495 \/ reload_497
    \/ deploy_666 \/ deploy_668 \/ deploy_671 \/ deploy_672 \/ deploy_673
    \/ deploy_677 \/ deploy_678

Spec == Init /\ [][Next]_vars

(* ---------------------------- stop_container -------------------------- *)

\* the container names line 583 tries when there is no manifest
NumPatterns == 3

\* errors = []; then step 1 calls stop_container (line 688), whose first
\* statement is line 570
destroy_684 ==
    /\ dpc = 684
    /\ errors' = <<>>
    /\ Enters("stop_container")
    /\ stop_obs' = [running |-> container_running,
                    manifest |-> compose_file # NoManifest,
                    path |-> "none", raised |-> FALSE]
    /\ dpc' = 570
    /\ UNCHANGED <<aux_stop, config, tracker, files, proxy, container_running, pc,
                   loopv, exc, rets, step_failed, pattern, stop_ret,
                   destroy_ret>>

\* StopReturns continuing at step 4 (line 722): the proxy is validated and
\* reloaded before the config of the domain is removed
StopReturns_reload_first(r) ==
    /\ stop_ret' = r
    /\ IF r = "False" THEN Fails("stop_container") ELSE UNCHANGED step_failed
    /\ dpc' = 722
    /\ UNCHANGED <<errors, destroy_ret, trace>>

\* the return of stop_container: to step 1 of destroy, which drops the
\* value (line 688) and goes on to step 2 (line 697), or to line 124 of
\* migrate_existing_deployment, which drops it too
StopReturns(r) ==
    /\ stop_ret' = r
    /\ IF r = "False" THEN Fails("stop_container") ELSE UNCHANGED step_failed
    /\ dpc' = IF caller = "migrate_existing_deployment" THEN Done ELSE 697
    /\ UNCHANGED <<errors, destroy_ret, trace>>

\* if os.path.exists(self.compose_file)
stop_570 ==
    /\ dpc = 570
    /\ IF compose_file # NoManifest
       THEN dpc' = 571 /\ UNCHANGED pattern
       ELSE dpc' = 585 /\ pattern' = 1
    /\ stop_obs' = [stop_obs EXCEPT !.path = IF compose_file # NoManifest
                                             THEN "compose" ELSE "names"]
    /\ UNCHANGED <<aux_stop, config, tracker, files, proxy, container_running, pc,
                   loopv, exc, rets, hist, errors, stop_ret, destroy_ret>>

\* stop_571 as if `docker compose down` ran with check=True: a non-zero
\* exit code raises CalledProcessError and stop_container returns False
stop_571_checks_exit_code ==
    /\ dpc = 571
    /\ \E o \in {"exit 0", "exit 1", "raise"} :
          /\ container_running' = IF o = "exit 0" THEN FALSE
                                  ELSE container_running
          /\ stop_obs' = [stop_obs EXCEPT !.raised = (o = "raise")]
          /\ StopReturns(IF o = "exit 0" THEN "True" ELSE "False")
    /\ UNCHANGED <<aux_stop, config, tracker, files, proxy, pc, loopv, exc,
                   rets, pattern>>

\* lines 571-579: `docker compose down` with check=False: whatever its exit
\* code, return True; a timeout or a failure to run the tool raises and is
\* caught at line 607, which returns False
stop_571 ==
    /\ dpc = 571
    /\ \E o \in {"exit 0", "exit 1", "raise"} :
          /\ container_running' = IF o = "exit 0" THEN FALSE
                                  ELSE container_running
          /\ stop_obs' = [stop_obs EXCEPT !.raised = (o = "raise")]
          /\ StopReturns(IF o = "raise" THEN "False" ELSE "True")
    /\ UNCHANGED <<aux_stop, config, tracker, files, proxy, pc, loopv, exc, rets,
                   pattern>>

\* lines 583-591: `docker stop <pattern>`, which exits 0 only when there is
\* such a container; a raised exception is dropped by the bare except of
\* line 602; after the last pattern, line 606 returns True
stop_585 ==
    /\ dpc = 585
    /\ IF pattern > NumPatterns
       THEN /\ StopReturns("True")
            /\ UNCHANGED <<pattern, container_running, stop_obs>>
       ELSE \E o \in {"exit 0", "exit 1", "raise"} :
               IF o = "exit 0" /\ container_running
               THEN /\ container_running' = FALSE
                    /\ dpc' = 595
                    /\ UNCHANGED <<pattern, stop_ret, step_failed, errors,
                                   destroy_ret, trace, stop_obs>>
               ELSE /\ pattern' = pattern + 1
                    /\ stop_obs' = [stop_obs EXCEPT
                                       !.raised = (@ \/ o = "raise")]
                    /\ dpc' = 585
                    /\ UNCHANGED <<container_running, stop_ret, step_failed,
                                   errors, destroy_ret, trace>>
    /\ UNCHANGED <<aux_stop, config, tracker, files, proxy, pc, loopv, exc, rets>>

\* lines 595-601: `docker rm <pattern>`, then return True; an exception of
\* it is dropped by the bare except and the loop goes on
stop_595 ==
    /\ dpc = 595
    /\ \E ok \in BOOLEAN :
          IF ok
          THEN StopReturns("True") /\ UNCHANGED pattern
          ELSE /\ pattern' = pattern + 1
               /\ dpc' = 585
               /\ UNCHANGED <<stop_ret, step_failed, errors, destroy_ret,
                              trace>>
    /\ UNCHANGED <<aux, config, tracker, files, proxy, container_running, pc,
                   loopv, exc, rets>>

(* ------------------------------- destroy ------------------------------ *)

\* ExceptCritical for a step outside any try: the exception leaves destroy
ExceptCritical_propagates(s, to) ==
    /\ Fails(s)
    /\ destroy_ret' = "raised"
    /\ dpc' = Done
    /\ UNCHANGED errors

\* the except clause of a critical step: the message is appended to errors
\* and destroy goes on at line `to`
ExceptCritical(s, to) ==
    /\ errors' = Append(errors, s)
    /\ Fails(s)
    /\ dpc' = to
    /\ UNCHANGED destroy_ret

\* the except clause of a non-critical step: the message is only logged
ExceptLogged(s, to) ==
    /\ Fails(s)
    /\ dpc' = to
    /\ UNCHANGED <<errors, destroy_ret>>

\* step 2, lines 696-707: remove the enabled symlink (or file)
destroy_697 ==
    /\ dpc = 697
    /\ Enters("remove_enabled")
    /\ IF nginx_enabled # "absent"
       THEN \E ok \in BOOLEAN :
               IF ok
               THEN /\ nginx_enabled' = "absent"
                    /\ dpc' = 711
                    /\ UNCHANGED <<errors, destroy_ret, step_failed>>
               ELSE /\ ExceptLogged("remove_enabled", 711)
                    /\ UNCHANGED nginx_enabled
       ELSE /\ dpc' = 711
            /\ UNCHANGED <<nginx_enabled, errors, destroy_ret, step_failed>>
    /\ UNCHANGED <<aux, config, tracker, files, nginx_available, nginx_written,
                   nginx_reloads, container_running, pc, loopv, exc, rets,
                   pattern, stop_ret>>

\* step 3, lines 710-718: remove the available config file
destroy_711 ==
    /\ dpc = 711
    /\ Enters("remove_available")
    /\ IF nginx_available # NoConf
       THEN \E ok \in BOOLEAN :
               IF ok
               THEN /\ nginx_available' = NoConf
                    /\ dpc' = 722
                    /\ UNCHANGED <<errors, destroy_ret, step_failed>>
               ELSE /\ ExceptCritical("remove_available", 722)
                    /\ UNCHANGED nginx_available
       ELSE /\ dpc' = 722
            /\ UNCHANGED <<nginx_available, errors, destroy_ret, step_failed>>
    /\ UNCHANGED <<aux, config, tracker, files, nginx_enabled, nginx_written,
                   nginx_reloads, container_running, pc, loopv, exc, rets,
                   pattern, stop_ret>>

\* step 4, line 722: if self.validate_nginx_config(): on True call
\* reload_nginx (line 723, entering at line 495), on False warn and go on,
\* on an exception run the except clause of line 727
destroy_722 ==
    /\ dpc = 722
    /\ Enters("reload_proxy")
    /\ \E o \in ProcOutcomes :
          /\ validated' = validate_nginx_config(o)
          /\ IF validate_nginx_config(o) = "True"
             THEN /\ dpc' = 495
                  /\ UNCHANGED <<errors, destroy_ret, step_failed>>
             ELSE ExceptLogged("reload_proxy", 734)
    /\ UNCHANGED <<aux_validated, config, tracker, files, proxy, container_running, pc,
                   loopv, exc, rets, pattern, stop_ret>>

\* reload_nginx called by destroy, lines 495-496: validate once more
destroy_495 ==
    /\ dpc = 495
    /\ \E o \in ProcOutcomes :
          /\ validated' = validate_nginx_config(o)
          /\ IF validate_nginx_config(o) = "True"
             THEN /\ dpc' = 497
                  /\ UNCHANGED <<errors, destroy_ret, step_failed>>
             ELSE ExceptLogged("reload_proxy", 734)
    /\ UNCHANGED <<aux_validated, config, tracker, files, proxy, container_running, pc,
                   loopv, exc, rets, pattern, stop_ret, trace>>

\* reload_nginx called by destroy, lines 497-502: reload the live proxy;
\* destroy drops the value returned
destroy_497 ==
    /\ dpc = 497
    /\ \E o \in ProcOutcomes :
          IF systemctl_reload(o) = "True"
          THEN /\ nginx_reloads' = nginx_reloads + 1
               /\ dpc' = 734
               /\ UNCHANGED <<errors, destroy_ret, step_failed>>
          ELSE /\ ExceptLogged("reload_proxy", 734)
               /\ UNCHANGED nginx_reloads
    /\ UNCHANGED <<aux, config, tracker, files, nginx_available, nginx_enabled,
                   nginx_written, container_running, pc, loopv, exc, rets,
                   pattern, stop_ret, trace>>

\* destroy_734 without the os.path.exists test of line 734: rmtree of an
\* absent directory raises
destroy_734_no_exists_test ==
    /\ dpc = 734
    /\ Enters("remove_site_dir")
    /\ validated' = "none"
    /\ \E ok \in BOOLEAN :
          IF ok /\ site_dir_exists
          THEN /\ site_dir_exists' = FALSE
               /\ scaffold' = "absent"
               /\ compose_file' = NoManifest
               /\ dpc' = 744
               /\ UNCHANGED <<errors, destroy_ret, step_failed>>
          ELSE /\ ExceptCritical("remove_site_dir", 744)
               /\ UNCHANGED files
    /\ UNCHANGED <<aux_validated, config, tracker, proxy, container_running, pc, loopv,
                   exc, rets, pattern, stop_ret>>

\* step 5, lines 733-741: shutil.rmtree(self.site_dir); step 4 is over
destroy_734 ==
    /\ dpc = 734
    /\ Enters("remove_site_dir")
    /\ validated' = "none"
    /\ IF site_dir_exists
       THEN \E ok \in BOOLEAN :
               IF ok
               THEN /\ site_dir_exists' = FALSE
                    /\ scaffold' = "absent"
                    /\ compose_file' = NoManifest
                    /\ dpc' = 744
                    /\ UNCHANGED <<errors, destroy_ret, step_failed>>
               ELSE /\ ExceptCritical("remove_site_dir", 744)
                    /\ UNCHANGED files
       ELSE /\ dpc' = 744
            /\ UNCHANGED <<files, errors, destroy_ret, step_failed>>
    /\ UNCHANGED <<aux_validated, config, tracker, proxy, container_running, pc, loopv, exc,
                   rets, pattern, stop_ret>>

\* lines 744-749: return True if not errors, else False
destroy_744 ==
    /\ dpc = 744
    /\ destroy_ret' = IF errors = <<>> THEN "True" ELSE "False"
    /\ dpc' = Done
    /\ UNCHANGED <<aux, config, tracker, files, proxy, container_running, pc,
                   loopv, exc, rets, hist, errors, pattern, stop_ret>>

(* ------------------------- the destroy system ------------------------- *)

\* delete_site constructs an Engine for the domain (app.py line 1347) and
\* calls destroy on whatever the domain left on disk and in the proxy
InitDestroy ==
    /\ runtime \in SupportedRuntimes
    /\ boilerplate = "blank"
    /\ site_id \in SiteIds
    /\ template_exists = TRUE
    /\ deployment_phase = "initializing"
    /\ deployment_progress = 0
    /\ deployment_logs = <<>>
    /\ progress_dropped = FALSE
    /\ caller = "destroy"
    /\ site_dir_exists \in BOOLEAN
    /\ existing = TRUE
    /\ scaffold = IF site_dir_exists THEN "old" ELSE "absent"
    /\ compose_file \in
          IF site_dir_exists
          THEN {NoManifest, [upstream_port |-> upstream_port,
                             container_port |-> _get_container_port]}
          ELSE {NoManifest}
    /\ nginx_available \in {NoConf, upstream_port}
    /\ nginx_enabled \in {"absent", "symlink", "file"}
    /\ container_running \in BOOLEAN
    /\ nginx_written = FALSE
    /\ nginx_reloads = 0
    /\ pc = Done
    /\ lines_read = 0
    /\ line = ""
    /\ attempt = 0
    /\ elapsed = 0
    /\ exc = ""
    /\ trace = <<>>
    /\ step_failed = {}
    /\ start_ret = "none"
    /\ health_ret = "none"
    /\ reload_ret = "none"
    /\ deploy_ret = "none"
    /\ dpc = 684
    /\ errors = <<>>
    /\ pattern = 0
    /\ stop_ret = "none"
    /\ destroy_ret = "none"
    /\ calls = 1
    /\ prev = NoCall
    /\ stop_obs = NoStop
    /\ probe = NoProbe
    /\ validated = "none"
    /\ migrate_ret = "none"
    /\ NoBulk
    /\ SiteFound

\* the site as the destroy call that just returned left it
Left == [ret |-> destroy_ret, site_dir |-> site_dir_exists,
         manifest |-> compose_file, available |-> nginx_available,
         enabled |-> nginx_enabled, running |-> container_running]

\* delete_site (or delete_domain, app.py line 1393) called once more for
\* the same domain: a new Engine, whose destroy starts at line 684
destroy_again ==
    /\ dpc = Done
    /\ destroy_ret \in {"True", "False"}
    /\ calls < MaxDestroys
    /\ calls' = calls + 1
    /\ prev' = Left
    /\ stop_obs' = NoStop
    /\ UNCHANGED <<probe, validated, migrate_ret, bulk, panel>>
    /\ dpc' = 684
    /\ errors' = <<>>
    /\ pattern' = 0
    /\ stop_ret' = "none"
    /\ destroy_ret' = "none"
    /\ trace' = <<>>
    /\ step_failed' = {}
    /\ UNCHANGED <<config, tracker, files, proxy, container_running, pc,
                   loopv, exc, rets>>

NextDestroy ==
    \/ destroy_again
    \/ destroy_684 \/ stop_570 \/ stop_571 \/ stop_585 \/ stop_595
    \/ destroy_697 \/ destroy_711 \/ destroy_722 \/ destroy_495
    \/ destroy_497 \/ destroy_734 \/ destroy_744

SpecDestroy == InitDestroy /\ [][NextDestroy]_vars

(* ------------------------- deploy and destroy ------------------------- *)

\* an Engine that runs deploy, or one that runs destroy
InitAll == Init \/ InitDestroy

NextAll == Next \/ NextDestroy

SpecAll == InitAll /\ [][NextAll]_vars

(* ------------------------------- claims ------------------------------- *)

Range(seq) == {seq[i] : i \in DOMAIN seq}

\* the lines of deploy, generate_nginx_config and reload_nginx from the
\* proxy step on
ProxyLines == {661, 662, 663, 469, 472, 476, 477, 478, 495, 497, 666}

(* -------------------------- the health prober ------------------------- *)

\* wait_for_container_health called on a newly constructed Engine
InitHealth ==
    /\ runtime \in SupportedRuntimes
    /\ boilerplate \in Boilerplates
    /\ site_id \in SiteIds
    /\ template_exists = TRUE
    /\ deployment_phase = "initializing"
    /\ deployment_progress = 0
    /\ deployment_logs = <<>>
    /\ progress_dropped = FALSE
    /\ caller = "wait_for_container_health"
    /\ site_dir_exists = TRUE
    /\ existing = TRUE
    /\ scaffold = "old"
    /\ compose_file = [upstream_port |-> upstream_port,
                       container_port |-> _get_container_port]
    /\ nginx_available = NoConf
    /\ nginx_enabled = "absent"
    /\ container_running \in BOOLEAN
    /\ nginx_written = FALSE
    /\ nginx_reloads = 0
    /\ pc = 762
    /\ lines_read = 0
    /\ line = ""
    /\ attempt = 0
    /\ elapsed = 0
    /\ exc = ""
    /\ trace = <<>>
    /\ step_failed = {}
    /\ start_ret = "none"
    /\ health_ret = "none"
    /\ reload_ret = "none"
    /\ deploy_ret = "none"
    /\ dpc = Done
    /\ errors = <<>>
    /\ pattern = 0
    /\ stop_ret = "none"
    /\ destroy_ret = "none"
    /\ calls = 0
    /\ prev = NoCall
    /\ stop_obs = NoStop
    /\ probe = NoProbe
    /\ validated = "none"
    /\ migrate_ret = "none"
    /\ NoBulk
    /\ NoPanel

\* the clock of line 769 also advances while `docker ps` (up to 5 s) and
\* urlopen (up to 2 s) run, not only during the sleep of line 825
clock_tick ==
    /\ pc \in {799, 814, 819, 825}
    /\ elapsed < HealthTimeout
    /\ elapsed' = elapsed + 1
    /\ UNCHANGED <<aux, config, tracker, files, proxy, container_running, pc,
                   lines_read, line, attempt, exc, rets, hist, destroyv>>

NextHealth ==
    \/ wait_762 \/ wait_763 \/ wait_764 \/ wait_769 \/ wait_770 \/ wait_799
    \/ wait_807 \/ wait_809 \/ wait_810 \/ wait_814 \/ wait_819 \/ wait_825
    \/ wait_827 \/ clock_tick

SpecHealth == InitHealth /\ [][NextHealth]_vars

(* --------------------- migrate_existing_deployment -------------------- *)

\* line 124: self.stop_container(), which runs at dpc from line 570 on;
\* migrate goes on at line 127 once it returned
migrate_124 ==
    /\ pc = 124
    /\ Enters("stop_container")
    /\ stop_obs' = [running |-> container_running,
                    manifest |-> compose_file # NoManifest,
                    path |-> "none", raised |-> FALSE]
    /\ dpc' = 570
    /\ pc' = 127
    /\ UNCHANGED <<aux_stop, config, tracker, files, proxy, container_running,
                   loopv, exc, rets, step_failed, errors, pattern, stop_ret,
                   destroy_ret>>

\* line 127: self.create_boilerplate()
migrate_127 ==
    /\ pc = 127
    /\ dpc = Done
    /\ create_boilerplate
    /\ pc' = 130
    /\ UNCHANGED <<aux, config, tracker, site_dir_exists, compose_file, proxy,
                   container_running, loopv, exc, rets, destroyv>>

\* line 130: self.generate_compose_file(); then line 133 calls
\* start_container (first statement: line 507); an exception is caught at
\* line 140
migrate_130 ==
    /\ pc = 130
    /\ generate_compose_file(507, 141)
    /\ UNCHANGED <<aux, config, tracker, site_dir_exists, scaffold, proxy,
                   container_running, loopv, rets, destroyv>>

\* migrate_133 returning True whatever start_container returned
migrate_133_ignores_start ==
    /\ pc = 133
    /\ migrate_ret' = "True"
    /\ pc' = Done
    /\ UNCHANGED <<aux_migrate, config, tracker, files, proxy,
                   container_running, loopv, exc, rets, hist, destroyv>>

\* lines 133-138: return True if start_container returned True, else False
migrate_133 ==
    /\ pc = 133
    /\ migrate_ret' = IF start_ret = "True" THEN "True" ELSE "False"
    /\ pc' = Done
    /\ UNCHANGED <<aux_migrate, config, tracker, files, proxy,
                   container_running, loopv, exc, rets, hist, destroyv>>

\* lines 140-142: except Exception: return False
migrate_141 ==
    /\ pc = 141
    /\ migrate_ret' = "False"
    /\ pc' = Done
    /\ UNCHANGED <<aux_migrate, config, tracker, files, proxy,
                   container_running, loopv, exc, rets, hist, destroyv>>

\* migrate_deployments makes an Engine for a site whose status is active
\* or failed (app.py lines 546-589) and calls migrate_existing_deployment
InitMigrate ==
    /\ runtime \in Runtimes
    /\ boilerplate \in Boilerplates
    /\ site_id \in SiteIds
    /\ template_exists \in BOOLEAN
    /\ caller = "migrate_existing_deployment"
    /\ existing = TRUE
    /\ deployment_phase = "initializing"
    /\ deployment_progress = 0
    /\ deployment_logs = <<>>
    /\ progress_dropped = FALSE
    /\ site_dir_exists = TRUE
    /\ scaffold = "old"
    /\ compose_file \in {NoManifest, [upstream_port |-> upstream_port,
                                      container_port |-> _get_container_port]}
    /\ nginx_available = upstream_port
    /\ nginx_enabled = "symlink"
    /\ container_running \in BOOLEAN
    /\ nginx_written = FALSE
    /\ nginx_reloads = 0
    /\ pc = 124
    /\ lines_read = 0
    /\ line = ""
    /\ attempt = 0
    /\ elapsed = 0
    /\ exc = ""
    /\ trace = <<>>
    /\ step_failed = {}
    /\ start_ret = "none"
    /\ health_ret = "none"
    /\ reload_ret = "none"
    /\ deploy_ret = "none"
    /\ dpc = Done
    /\ errors = <<>>
    /\ pattern = 0
    /\ stop_ret = "none"
    /\ destroy_ret = "none"
    /\ calls = 0
    /\ prev = NoCall
    /\ stop_obs = NoStop
    /\ probe = NoProbe
    /\ validated = "none"
    /\ migrate_ret = "none"
    /\ NoBulk
    /\ NoPanel

NextMigrate ==
    \/ migrate_124 \/ stop_570 \/ stop_571 \/ stop_585 \/ stop_595
    \/ migrate_127 \/ migrate_130
    \/ start_507 \/ start_508 \/ start_509 \/ start_510 \/ start_513
    \/ start_523 \/ start_526 \/ start_529 \/ start_531 \/ start_534
    \/ start_537 \/ start_539 \/ start_542 \/ start_546 \/ start_547
    \/ start_548 \/ start_553
    \/ migrate_133 \/ migrate_141

SpecMigrate == InitMigrate /\ [][NextMigrate]_vars

(* ------------------- migrate_deployments (app.py) --------------------- *)

\* the variables of an Engine, which migrate_deployments leaves to the
\* Engine it makes for each site
engine == <<config, tracker, files, proxy, container_running, pc, loopv, exc,
            rets, hist, destroyv, calls, prev, stop_obs, probe, validated,
            migrate_ret>>

\* for site in sites: the next site, or the response of lines 606-613
bulk_568 ==
    /\ mpc = 568
    /\ IF site < total_sites
       THEN site' = site + 1 /\ mpc' = 570
       ELSE UNCHANGED site /\ mpc' = Done
    /\ UNCHANGED <<engine, panel, total_sites, migrated_count, failed_count,
                   failed_sites, site_result>>

\* lines 570-592: read the row, look for a wordpress manifest, make the
\* Engine and call migrate_existing_deployment, which returns True or
\* False; an exception before the call (a row without a key, an unreadable
\* manifest) goes to the handler of line 602
bulk_570 ==
    /\ mpc = 570
    /\ \E r \in {"True", "False", "raised"} :
          /\ site_result' = [site_result EXCEPT ![site] = r]
          /\ mpc' = IF r = "True" THEN 593 ELSE IF r = "False" THEN 597
                    ELSE 602
    /\ UNCHANGED <<engine, panel, total_sites, site, migrated_count,
                   failed_count,
                   failed_sites>>

\* lines 593-595: migrated_count += 1, then update('sites', status active),
\* which raises when the database cannot be reached
bulk_593 ==
    /\ mpc = 593
    /\ migrated_count' = migrated_count + 1
    /\ \E o \in {"ok", "raise"} : mpc' = IF o = "ok" THEN 568 ELSE 602
    /\ UNCHANGED <<engine, panel, total_sites, site, failed_count, failed_sites,
                   site_result>>

\* lines 597-600: failed_count += 1, failed_sites.append(domain), then
\* update('sites', status failed)
bulk_597 ==
    /\ mpc = 597
    /\ failed_count' = failed_count + 1
    /\ failed_sites' = Append(failed_sites, site)
    /\ \E o \in {"ok", "raise"} : mpc' = IF o = "ok" THEN 568 ELSE 602
    /\ UNCHANGED <<engine, panel, total_sites, site, migrated_count, site_result>>

\* lines 602-605: except Exception: failed_count += 1,
\* failed_sites.append(site.get('domain', 'unknown'))
bulk_602 ==
    /\ mpc = 602
    /\ failed_count' = failed_count + 1
    /\ failed_sites' = Append(failed_sites, site)
    /\ mpc' = 568
    /\ UNCHANGED <<engine, panel, total_sites, site, migrated_count, site_result>>

\* lines 546-566: the query selected one site or more (none: the early
\* return of line 553); no Engine is made yet
InitBulk ==
    /\ total_sites \in 1..MaxSites
    /\ site = 0
    /\ migrated_count = 0
    /\ failed_count = 0
    /\ failed_sites = <<>>
    /\ site_result = [s \in 1..total_sites |-> "none"]
    /\ mpc = 568
    /\ runtime = "node"
    /\ boilerplate = "blank"
    /\ site_id = 1
    /\ template_exists = TRUE
    /\ existing = TRUE
    /\ caller = "migrate_existing_deployment"
    /\ deployment_phase = "initializing"
    /\ deployment_progress = 0
    /\ deployment_logs = <<>>
    /\ progress_dropped = FALSE
    /\ site_dir_exists = TRUE
    /\ scaffold = "old"
    /\ compose_file = NoManifest
    /\ nginx_available = NoConf
    /\ nginx_enabled = "absent"
    /\ container_running = FALSE
    /\ nginx_written = FALSE
    /\ nginx_reloads = 0
    /\ pc = Done
    /\ lines_read = 0
    /\ line = ""
    /\ attempt = 0
    /\ elapsed = 0
    /\ exc = ""
    /\ trace = <<>>
    /\ step_failed = {}
    /\ start_ret = "none"
    /\ health_ret = "none"
    /\ reload_ret = "none"
    /\ deploy_ret = "none"
    /\ dpc = Done
    /\ errors = <<>>
    /\ pattern = 0
    /\ stop_ret = "none"
    /\ destroy_ret = "none"
    /\ calls = 0
    /\ prev = NoCall
    /\ stop_obs = NoStop
    /\ probe = NoProbe
    /\ validated = "none"
    /\ migrate_ret = "none"
    /\ NoPanel

NextBulk == bulk_568 \/ bulk_570 \/ bulk_593 \/ bulk_597 \/ bulk_602

SpecBulk == InitBulk /\ [][NextBulk]_vars

\* C1: the proxy configuration is written and activated and the proxy is
\* reloaded only after start_container and wait_for_container_health both
\* returned success in the same run; no run reaches the proxy step when
\* either of them returned failure.
C1_ProxyOnlyAfterHealthy ==
    (\/ pc \in ProxyLines
     \/ nginx_written
     \/ nginx_reloads > 0
     \/ "generate_nginx_config" \in Range(trace)
     \/ "reload_nginx" \in Range(trace))
    => (start_ret = "True" /\ health_ret = "True")

\* a run that wrote and activated the config and reloaded the proxy
C1_Witness ==
    /\ pc = Done
    /\ nginx_written
    /\ nginx_enabled = "symlink"
    /\ nginx_reloads = 1

\* C2: deploy aborts on the first hard failure: once a step (create
\* directories, generate scaffold, render manifest, start container, wait
\* for health, write proxy config, reload proxy) has raised or returned
\* failure, no later step is executed, the phase ends as failed and deploy
\* returns False.
C2_AbortsOnFirstFailure ==
    /\ \A i \in DOMAIN trace : trace[i] \in step_failed => i = Len(trace)
    /\ (pc = Done /\ step_failed # {})
          => (deployment_phase = "failed" /\ deploy_ret = "False")

ErrorTexts == {"ERROR:", "ERROR: Deployment failed:",
               "ERROR: Container startup failed with exit code",
               "ERROR: Container did not become healthy within"}

\* C3: whenever deploy ends in phase failed, the deployment log holds an
\* entry with the triggering error message, appended during that run,
\* whichever step failed.
C3_FailureIsLogged ==
    (pc = Done /\ deployment_phase = "failed")
    => \E i \in DOMAIN deployment_logs : deployment_logs[i][1] \in ErrorTexts

\* C4: during a deploy run that ends in completed, progress stays within
\* 0..100 and never decreases from one state to the next, for every sequence
\* of output lines of the orchestration tool.
C4_ProgressMonotone ==
    /\ deployment_progress \in 0..100
    /\ (pc = Done /\ deployment_phase = "completed") => ~progress_dropped

ListedPhases == {"initializing", "creating_directories",
                 "creating_boilerplate", "generating_compose",
                 "pulling_image", "starting_container", "checking_health",
                 "configuring_nginx", "completed", "failed"}

AllPhases == ListedPhases \cup {"container_started",
                                "installing_dependencies", "healthy"}

\* the place of a phase in the order of the state machine
PhaseRank(p) ==
    CASE p = "initializing" -> 1
      [] p = "creating_directories" -> 2
      [] p = "creating_boilerplate" -> 3
      [] p = "generating_compose" -> 4
      [] p \in {"pulling_image", "starting_container", "container_started"} -> 5
      [] p = "installing_dependencies" -> 6
      [] p = "checking_health" -> 7
      [] p = "healthy" -> 8
      [] p = "configuring_nginx" -> 9
      [] p = "completed" -> 10
      [] p = "failed" -> 11
      [] OTHER -> 0

\* C5 as stated: during deploy the phase takes only the values of the
\* listed state machine and moves only forward along it (pulling_image and
\* starting_container may interleave), or to failed.
C5_ListedPhasesForward ==
    [][(/\ deployment_phase' \in ListedPhases
        /\ PhaseRank(deployment_phase') >= PhaseRank(deployment_phase))]_vars

\* C5 as amended: during deploy the phase takes only the values of the
\* listed state machine and container_started, installing_dependencies and
\* healthy, and moves only forward along initializing, creating_directories,
\* creating_boilerplate, generating_compose, pulling_image /
\* starting_container / container_started (these three may interleave),
\* installing_dependencies, checking_health, healthy, configuring_nginx,
\* completed, or to failed; it never returns to an earlier state of that
\* order.
C5_PhasesForward ==
    [][(/\ deployment_phase \in AllPhases
        /\ deployment_phase' \in AllPhases
        /\ PhaseRank(deployment_phase') >= PhaseRank(deployment_phase))]_vars

\* a completed run whose tool output made the phases of start_container
\* interleave
C5_Witness ==
    /\ pc = Done
    /\ deployment_phase = "completed"
    /\ \E i, j \in DOMAIN deployment_logs :
          /\ i < j
          /\ deployment_logs[i] = Entry("output", "Started")
          /\ deployment_logs[j] = Entry("output", "Pulling")

\* the response of get_deployment_logs for an Engine found in the registry
get_deployment_logs ==
    [phase |-> deployment_phase,
     progress |-> deployment_progress,
     logs |-> deployment_logs,
     completed |-> deployment_phase \in {"completed", "failed"}]

\* C6: once the phase is completed or failed, the phase, the progress and
\* the log do not change any more, so a status query that observes a
\* terminal phase observes the final progress and the final log.
C6_TerminalStateIsFinal ==
    [][(get_deployment_logs.completed)
       => (/\ get_deployment_logs' = get_deployment_logs
           /\ get_deployment_logs.phase = "completed"
                 => get_deployment_logs.progress = 100)]_vars

\* C7: if every step succeeds, deploy returns True with final phase
\* completed, progress 100, the manifest written for upstream port
\* 3000 + site_id and the proxy config present in the available location and
\* linked from the enabled location; deploy returns True in no other case.
C7_TrueIffEveryStepSucceeds ==
    /\ (pc = Done /\ step_failed = {})
          => /\ deploy_ret = "True"
             /\ deployment_phase = "completed"
             /\ deployment_progress = 100
             /\ compose_file.upstream_port = BASE_PORT + site_id
             /\ nginx_available = BASE_PORT + site_id
             /\ nginx_enabled = "symlink"
    /\ deploy_ret = "True" => step_failed = {}

\* generate_compose_file has run and found the selected template absent
TemplateMissing ==
    /\ runtime \in SupportedRuntimes
    /\ ~template_exists
    /\ "generate_compose_file" \in Range(trace)

\* C8: when the template file selected for the deployment is absent,
\* deploy ends in phase failed, the log holds a template-not-found message,
\* the container is never started and no proxy config is created for the
\* domain.
C8_MissingTemplateFails ==
    TemplateMissing
    => /\ pc \in {677, 678, Done}
       /\ "start_container" \notin Range(trace)
       /\ "generate_nginx_config" \notin Range(trace)
       /\ ~nginx_written
       /\ compose_file = NoManifest
             => (nginx_available = NoConf /\ nginx_enabled = "absent"
                 /\ ~container_running)
       /\ pc = Done
             => /\ deployment_phase = "failed"
                /\ deploy_ret = "False"
                /\ Entry("ERROR: Deployment failed:", "Template not found")
                      \in Range(deployment_logs)

\* a deploy of a never deployed domain that ended on the missing template
C8_Witness ==
    /\ TemplateMissing
    /\ pc = Done
    /\ compose_file = NoManifest

CriticalSteps == {"stop_container", "remove_available", "remove_site_dir"}

\* C9: destroy reports overall failure exactly when at least one critical
\* step (stop container, remove the proxy available file, remove the site
\* directory) failed; a failure of the enabled-symlink removal or of the
\* proxy validate/reload alone never makes destroy report failure.
C9_FailureIffCriticalStepFailed ==
    dpc = Done
    => (destroy_ret = "False" <=> step_failed \cap CriticalSteps # {})

DestroySteps == {"stop_container", "remove_enabled", "remove_available",
                 "reload_proxy", "remove_site_dir"}

\* C10: destroy never aborts early: for every combination of failing steps
\* all five steps (stop container, remove enabled symlink, remove available
\* file, validate/reload proxy, remove site directory) are attempted, and
\* destroy itself never raises.
C10_AllStepsAttempted ==
    /\ destroy_ret # "raised"
    /\ dpc = Done
          => (Range(trace) = DestroySteps /\ destroy_ret \in {"True", "False"})

\* a destroy that returned after each of its five steps had failed
C10_Witness ==
    /\ dpc = Done
    /\ step_failed = DestroySteps

\* the five steps of destroy in the order of lines 686-741
DestroyOrder == <<"stop_container", "remove_enabled", "remove_available",
                  "reload_proxy", "remove_site_dir">>

\* C11: destroy performs its steps in the order stop container, remove
\* enabled symlink, remove available config file, validate and reload
\* proxy, remove site directory: the steps entered so far are always a
\* prefix of that order, the proxy is validated or reloaded only after both
\* removals of the config were attempted, and the site directory is removed
\* last, immediately before destroy returns.
C11_StepsInOrder ==
    /\ \E n \in 0..Len(DestroyOrder) : trace = SubSeq(DestroyOrder, 1, n)
    /\ dpc \in {495, 497}
          => {"remove_enabled", "remove_available"} \subseteq Range(trace)
    /\ dpc = 744 => trace = DestroyOrder

\* a destroy that removed both config entries, reloaded the proxy and then
\* removed the site directory
C11_Witness ==
    /\ dpc = Done
    /\ trace = DestroyOrder
    /\ step_failed = {}
    /\ nginx_reloads = 1

\* C12 as stated: after a first destroy of a site, a second destroy that
\* directly follows it never raises, returns True and leaves the site
\* directory, the manifest and both proxy config entries as the first call
\* left them.
C12_SecondDestroyIdempotent ==
    /\ destroy_ret # "raised"
    /\ (calls >= 2 /\ dpc = Done)
          => /\ destroy_ret = "True"
             /\ site_dir_exists = prev.site_dir
             /\ compose_file = prev.manifest
             /\ nginx_available = prev.available
             /\ nginx_enabled = prev.enabled

\* C12: after a destroy that returned True, a further destroy of the same
\* site never raises and returns True; the site directory, the manifest and
\* the available config stay absent as the first call left them, and the
\* only changes are the removal of an enabled entry, or the stop of a
\* container, that the first call had failed to remove or stop.
C12_IdempotentAfterSuccess ==
    /\ destroy_ret # "raised"
    /\ (calls >= 2 /\ prev.ret = "True")
          => /\ dpc = Done => destroy_ret = "True"
             /\ errors = <<>>
             /\ ~site_dir_exists /\ ~prev.site_dir
             /\ compose_file = NoManifest /\ prev.manifest = NoManifest
             /\ nginx_available = NoConf /\ prev.available = NoConf
             /\ nginx_enabled \in {prev.enabled, "absent"}
             /\ container_running => prev.running

\* a second destroy that returned after a first one that returned True
C12_Witness ==
    /\ calls = 2
    /\ dpc = Done
    /\ prev.ret = "True"
    /\ destroy_ret = "True"
    /\ trace = DestroyOrder

InPoll == {799, 814, 819, 825}
PollSucceeded == {807, 809, 810}

\* C14: wait_for_container_health returns failure only after the elapsed
\* time has reached the timeout without any successful probe, and for a
\* container that is first found running and answering at poll N it
\* returns success at poll N: no poll before N took the success branch,
\* and no successful poll is passed over in favour of a later one.
C14_FailureOnlyAfterTimeout ==
    /\ pc = 827 => (elapsed >= HealthTimeout /\ probe.first_ok = 0)
    /\ pc \in PollSucceeded => (probe.first_ok = attempt /\ attempt >= 1)
    /\ pc \in InPoll \cup {769, 770} => probe.first_ok = 0
    /\ health_ret = "False" => "wait_for_container_health" \in step_failed

\* the third poll is the first that finds the container up and answering,
\* after one poll that found it down and one that got no connection
C14_Witness ==
    /\ pc = 810
    /\ attempt = 3
    /\ probe.first_ok = 3
    /\ elapsed >= 2 * PollInterval

\* C15: a health poll counts as successful exactly when the container
\* <domain>-app is reported running and the HTTP GET to the runtime's
\* readiness path (/ for PHP, /health for Node and Python) got any HTTP
\* response, error statuses included; a connection-level failure or a
\* container that is not running makes the poll unsuccessful, and the GET
\* is issued only when the container is running.
C15_PollSuccessfulIffUpAndAnswered ==
    /\ pc \in PollSucceeded => (probe.up = "Up" /\ Answered(probe.http))
    /\ pc \in {814, 819, 825} => ~(probe.up = "Up" /\ Answered(probe.http))
    /\ pc = 814 => probe.http = "URLError"
    /\ pc = 819 => probe.up = "not up"
    /\ probe.get # "none"
          => /\ probe.up = "Up"
             /\ runtime = "php" => probe.get = "/"
             /\ runtime \in {"node", "python"} => probe.get = "/health"
    /\ probe.http # "none" => probe.get # "none"

\* a poll of a PHP site that succeeds on an error status answered at /
C15_Witness ==
    /\ pc = 807
    /\ runtime = "php"
    /\ probe.up = "Up"
    /\ probe.get = "/"
    /\ probe.http = "HTTPError"

\* C16: the live proxy is reloaded only immediately after a syntax
\* validation of the proxy configuration succeeded: the reload command is
\* run (line 497) only in the state the successful validation of line 495
\* left, the count of reloads changes only there, and whenever validation
\* fails the reload command is skipped; reload_nginx then returns False in
\* deploy, and step 4 of destroy ends as failed.
C16_ReloadOnlyAfterValidation ==
    /\ [](/\ (pc = 497 \/ dpc = 497) => validated = "True"
          /\ (validated = "False" /\ calls = 0)
                => (reload_ret = "False" /\ nginx_reloads = 0 /\ pc # 497)
          /\ (validated = "False" /\ calls > 0)
                => (dpc = 734 /\ "reload_proxy" \in step_failed))
    /\ [][(nginx_reloads' # nginx_reloads)
          => (validated = "True" /\ (pc = 497 \/ dpc = 497))]_vars

\* deploy is past a reload_nginx that skipped the reload because the
\* validation failed
C16_Witness ==
    /\ validated = "False"
    /\ reload_ret = "False"
    /\ pc = 666
    /\ nginx_written

\* C17: generate_nginx_config activates the config by atomically replacing
\* the enabled symlink: for a domain whose enabled entry existed before the
\* deploy, the entry is absent in no state of the run, neither between two
\* statements of the activation nor after a failure during it.
C17_EnabledEntryNeverAbsent ==
    existing => nginx_enabled # "absent"

\* C18: a proxy config for a domain exists, in the available or the
\* enabled location, only while the site is active: after a deploy of a
\* new domain that ended failed none is present, and after a destroy that
\* returned True none is present either.
C18_ProxyConfigOnlyWhileActive ==
    /\ (pc = Done /\ deployment_phase = "failed" /\ ~existing)
          => (nginx_available = NoConf /\ nginx_enabled = "absent")
    /\ (dpc = Done /\ destroy_ret = "True")
          => (nginx_available = NoConf /\ nginx_enabled = "absent")

\* the four steps of migrate_existing_deployment in the order of lines
\* 124-133
MigrateOrder == <<"stop_container", "create_boilerplate",
                  "generate_compose_file", "start_container">>

C20_EverySiteCountedOnce ==
    mpc = Done
    => /\ \A s \in 1..total_sites : site_result[s] # "none"
       /\ migrated_count + failed_count = total_sites
       /\ migrated_count
             = Cardinality({s \in 1..total_sites : site_result[s] = "True"})
       /\ \A s \in 1..total_sites :
             site_result[s] # "True" => s \in Range(failed_sites)

(* ------------------ create_site and its deploy worker ----------------- *)

\* deployment_key = f"{domain_id}_{site_id}", for the one domain of the run
deployment_key == <<"domain_id", site_id>>

\* the variables of the Engine but for the position of the deploy thread
engine_but_pc == <<config, tracker, files, proxy, container_running, loopv,
                   exc, rets, hist, destroyv, calls, prev, stop_obs, probe,
                   validated, migrate_ret>>

\* update('sites', {'status': s, ...}) at line `at`: the write is made and
\* the worker goes on at line `to`, or execute_query raises and the worker
\* goes on at line `handler`
update(at, s, to, handler) ==
    /\ wpc = at
    /\ \/ /\ status' = s
          /\ written' = Append(written, s)
          /\ wpc' = to
       \/ /\ wpc' = handler
          /\ UNCHANGED <<status, written>>
    /\ UNCHANGED <<engine, bulk, active_deployments, response, args, result>>

\* site_id = insert('sites', {..., 'status': 'deploying'}); when it raises,
\* the handler of line 1630 answers and nothing was made
create_1549 ==
    /\ wpc = 1549
    /\ \/ /\ status' = "deploying"
          /\ wpc' = 1567
       \/ /\ wpc' = Done
          /\ UNCHANGED status
    /\ UNCHANGED <<engine, bulk, active_deployments, written, response, args,
                   result>>

\* engine = DockerEngine(domain['domain'], runtime, site_id, version,
\* boilerplate): the tracker of the new Engine is that of Init
create_1567 ==
    /\ wpc = 1567
    /\ deployment_phase = "initializing"
    /\ deployment_progress = 0
    /\ deployment_logs = <<>>
    /\ wpc' = 1571
    /\ UNCHANGED <<engine, bulk, active_deployments, status, written,
                   response, args, result>>

\* create_1571 without the write: the thread is started with the key not yet
\* in the registry
create_1571_registers_later ==
    /\ wpc = 1571
    /\ wpc' = 1603
    /\ UNCHANGED <<engine, bulk, active_deployments, status, written,
                   response, args, result>>

\* active_deployments[deployment_key] = engine
create_1571 ==
    /\ wpc = 1571
    /\ active_deployments' = active_deployments \cup {deployment_key}
    /\ wpc' = 1603
    /\ UNCHANGED <<engine, bulk, status, written, response, args, result>>

\* t.start(): the worker calls engine_obj.deploy() (line 1575); the rest of
\* the request handler (the DNS zone and the response) touches nothing of
\* the site
create_1603 ==
    /\ wpc = 1603
    /\ pc' = 631
    /\ wpc' = 1575
    /\ UNCHANGED <<engine_but_pc, bulk, active_deployments, status, written,
                   response, args, result>>

\* worker_1576 with the cleanup of lines 1599-1600 done first: the key is
\* removed as soon as deploy has returned
worker_1576_retires_first ==
    /\ wpc = 1575
    /\ pc = Done
    /\ deploy_ret \in {"True", "False"}
    /\ active_deployments' = active_deployments \ {deployment_key}
    /\ wpc' = IF deploy_ret = "True" THEN 1577 ELSE 1581
    /\ UNCHANGED <<engine, bulk, status, written, response, args, result>>

\* ok = engine_obj.deploy() has returned; if ok:
worker_1576 ==
    /\ wpc = 1575
    /\ pc = Done
    /\ deploy_ret \in {"True", "False"}
    /\ wpc' = IF deploy_ret = "True" THEN 1577 ELSE 1581
    /\ UNCHANGED <<engine, bulk, active_deployments, status, written,
                   response, args, result>>

worker_1577 == update(1577, "active", 1598, 1592)
worker_1581 == update(1581, "failed", 1598, 1592)
\* except Exception as e: ... update with deploy_error
worker_1592 == update(1592, "failed", 1598, 1594)
\* except Exception: update without deploy_error; when it raises too, the
\* exception leaves the worker through the finally clause
worker_1594 == update(1594, "failed", 1598, 1598)

\* finally: time.sleep(60)
worker_1598 ==
    /\ wpc = 1598
    /\ wpc' = 1599
    /\ UNCHANGED <<engine, bulk, active_deployments, status, written,
                   response, args, result>>

\* if deploy_key in active_deployments: del active_deployments[deploy_key]
worker_1599 ==
    /\ wpc = 1599
    /\ active_deployments' = active_deployments \ {deployment_key}
    /\ wpc' = Done
    /\ UNCHANGED <<engine, bulk, status, written, response, args, result>>

\* create_site is called for a domain: no record, no Engine and no registry
\* entry of the new site exist yet. The domain is new, or (a php domain) it
\* has a site that an earlier create_site deployed
InitSite ==
    /\ runtime \in Runtimes
    /\ boilerplate \in Boilerplates
    /\ site_id \in SiteIds
    /\ template_exists \in BOOLEAN
    /\ deployment_phase = "initializing"
    /\ deployment_progress = 0
    /\ deployment_logs = <<>>
    /\ progress_dropped = FALSE
    /\ caller = "deploy"
    /\ \E before \in BOOLEAN :
          /\ before => runtime = "php" /\ boilerplate = "blank"
                          /\ template_exists
          /\ existing = before
          /\ site_dir_exists = before
          /\ scaffold = IF before THEN "old" ELSE "absent"
          /\ compose_file = IF before
                            THEN [upstream_port |-> BASE_PORT + 1,
                                  container_port |-> PhpContainerPort]
                            ELSE NoManifest
          /\ nginx_available = IF before THEN BASE_PORT + 1 ELSE NoConf
          /\ nginx_enabled = IF before THEN "symlink" ELSE "absent"
          /\ container_running = before
    /\ nginx_written = FALSE
    /\ nginx_reloads = 0
    /\ pc = Done
    /\ lines_read = 0
    /\ line = ""
    /\ attempt = 0
    /\ elapsed = 0
    /\ exc = ""
    /\ trace = <<>>
    /\ step_failed = {}
    /\ start_ret = "none"
    /\ health_ret = "none"
    /\ reload_ret = "none"
    /\ deploy_ret = "none"
    /\ dpc = Done
    /\ errors = <<>>
    /\ pattern = 0
    /\ stop_ret = "none"
    /\ destroy_ret = "none"
    /\ calls = 0
    /\ prev = NoCall
    /\ stop_obs = NoStop
    /\ probe = NoProbe
    /\ validated = "none"
    /\ migrate_ret = "none"
    /\ NoBulk
    /\ active_deployments = {}
    /\ status = "none"
    /\ written = <<>>
    /\ wpc = 1549
    /\ response = NoResponse
    /\ args = <<>>
    /\ result = "none"

NextSite ==
    \/ create_1549 \/ create_1567 \/ create_1571 \/ create_1603
    \/ Next
    \/ worker_1576 \/ worker_1577 \/ worker_1581 \/ worker_1592
    \/ worker_1594 \/ worker_1598 \/ worker_1599

SpecSite == InitSite /\ [][NextSite]_vars

(* ------------------------ claims on the panel ------------------------- *)

\* the response of get_deployment_logs for the key of the site (lines
\* 1494-1528): that of the Engine when the registry has the key, else one
\* made from the status column of the site's record
status_query ==
    IF deployment_key \in active_deployments THEN get_deployment_logs
    ELSE IF status = "none"
    THEN [phase |-> "Site not found", progress |-> 0, logs |-> <<>>,
          completed |-> FALSE]
    ELSE IF status \in {"active", "failed"}
    THEN [phase |-> status,
          progress |-> IF status = "active" THEN 100 ELSE 0,
          logs |-> <<Entry("Deployment", status)>>,
          completed |-> TRUE]
    ELSE [phase |-> "deploying", progress |-> 0,
          logs |-> <<Entry("Initializing deployment...", "")>>,
          completed |-> FALSE]

\* the lines of _deploy_worker
WorkerLines == {1575, 1577, 1581, 1592, 1594, 1598, 1599}

\* deploy has been called on the Engine
DeployStarted == pc # Done \/ deploy_ret # "none"

\* C21: the key of the site is in the registry when the deploy thread is
\* started, and stays there while the worker runs: from the first step of
\* deploy until the worker has removed the key, a status query is answered
\* from the Engine.
C21_RegisteredWhileDeploying ==
    /\ wpc \in WorkerLines \cup {1603}
          => /\ deployment_key \in active_deployments
             /\ status_query = get_deployment_logs
    /\ pc # Done => wpc = 1575
    /\ DeployStarted => wpc \in WorkerLines \cup {Done}

\* the first step of deploy is about to run and the key is registered
C21_Witness ==
    /\ pc = 631
    /\ wpc = 1575
    /\ deployment_key \in active_deployments

\* the Engine has reached a terminal phase
Terminal == deployment_phase \in {"completed", "failed"}

\* the worker removes the key from the registry in this step
Retires ==
    /\ deployment_key \in active_deployments
    /\ deployment_key \notin active_deployments'

C23_StatusFollowsDeploy ==
    /\ status # "none" /\ deploy_ret = "none" => status = "deploying"
    /\ written # <<>> => Terminal /\ deploy_ret \in {"True", "False"}
    /\ \A i \in DOMAIN written :
          /\ written[i] \in {"active", "failed"}
          /\ written[i] = "active" <=> deploy_ret = "True"
    /\ written # <<>> => status = written[Len(written)]

(* --------------------- deploy under fair scheduling ------------------- *)

\* a first deployment with every runtime, with and without the template,
\* and a deployment over an existing one, for one site id. The deploy
\* thread is the only thread of the run and is
\* scheduled as long as it has a step to take; every external command it
\* waits for ends (with one of the outcomes of the step), every sleep
\* returns
InitLive ==
    /\ Init
    /\ site_id = MaxSiteId
    /\ boilerplate = "blank"
    /\ existing => runtime = "php" /\ template_exists

SpecLive == InitLive /\ [][Next]_vars /\ WF_vars(Next)

\* C24: under fair scheduling and terminating external commands every
\* deployment reaches phase completed or failed and deploy returns; a
\* health wait that never sees the container healthy gives up once the
\* timeout has elapsed.
C24_DeployReachesTerminalPhase ==
    /\ <>(pc = Done /\ Terminal /\ deploy_ret \in {"True", "False"})
    /\ (pc = 769) ~> (pc = 655 \/ pc = Done)
    /\ [](pc \in InPoll \cup {770} => elapsed < HealthTimeout)

\* deploy has returned after the health wait timed out: the phase is failed
C24_Witness ==
    /\ pc = Done
    /\ deployment_phase = "failed"
    /\ deploy_ret = "False"
    /\ "wait_for_container_health" \in step_failed
    /\ \E i \in DOMAIN deployment_logs :
          deployment_logs[i] =
             Entry("ERROR: Container did not become healthy within", "timeout")

(* --------------------- functions called on their own ------------------ *)

\* the longest template, in tokens, a call is made with
MaxTokens == 2

\* the domains of the run, by id (domains.id -> domains.domain)
DomainIds == {"d1", "d2"}
DomainName(d) == IF d = "d1" THEN "a.example" ELSE "b.example"

\* self.site_id = site_id or domain: 0 is falsy, so the domain is taken;
\* int() of a domain name raises ValueError (line 39)
upstream_port_of(sid) ==
    IF sid = 0 THEN [exc |-> "ValueError", port |-> 0]
    ELSE [exc |-> "", port |-> BASE_PORT + sid]

\* the paths an Engine made for the key k = <<domain_id, site_id>> writes:
\* site_dir, compose_file, data_dir (lines 35-37) and the proxy config
\* (lines 468, 475)
Paths(k) ==
    LET domain == DomainName(k[1]) IN
    [site_dir |-> <<"SITES_DIR", domain>>,
     compose_file |-> <<"SITES_DIR", domain, "compose.yml">>,
     data_dir |-> <<"SITES_DIR", domain, "data">>,
     nginx_file |-> <<"NGINX_AVAILABLE", domain, ".conf">>,
     nginx_enabled_link |-> <<"NGINX_ENABLED", domain, ".conf">>]

\* the five placeholders of a template, in the order of lines 408-412
Placeholders == <<"{{DOMAIN}}", "{{SITE_DIR}}", "{{DOCKER_IMAGE}}",
                  "{{UPSTREAM_PORT}}", "{{CONTAINER_PORT}}">>

\* a template: a sequence of placeholders and of text without braces
Tokens == {Placeholders[i] : i \in DOMAIN Placeholders} \cup {"text"}
Templates == UNION {[1..n -> Tokens] : n \in 0..MaxTokens}

\* content.replace(old, new)
replace(content, old, new) ==
    [i \in DOMAIN content |-> IF content[i] = old THEN new ELSE content[i]]

\* lines 407-411 without the replace of line 412
render_but_container_port(content) ==
    replace(replace(replace(replace(content,
        Placeholders[1], "a.example"),
        Placeholders[2], "SITES_DIR/a.example/data"),
        Placeholders[3], "docker_image"),
        Placeholders[4], ToString(upstream_port))

\* lines 407-412 of generate_compose_file: the content written
render(content) ==
    replace(render_but_container_port(content),
            Placeholders[5], ToString(_get_container_port))

\* user.get('role'): "none" when the user has no role
Roles == {"user", "admin", "superadmin", "none"}
UserIds == {1, 2}
\* domains.owner_user of the domain asked for; 0: fetch_one found no row
Owners == {0} \cup UserIds

is_superadmin(user) == user.role = "superadmin"
is_admin(user) == user.role \in {"admin", "superadmin"}
owns_domain(user_id, owner) == IF owner = 0 THEN FALSE ELSE owner = user_id
can_access_domain_admins(user, owner) ==
    IF is_admin(user) THEN TRUE ELSE owns_domain(user.user_id, owner)
can_access_domain(user, owner) ==
    IF is_superadmin(user) THEN TRUE ELSE owns_domain(user.user_id, owner)

\* DockerEngine(domain, runtime, site_id) and DockerEngine(domain, runtime,
\* other): the upstream ports
call_init ==
    /\ args.fn = "__init__"
    /\ ~args.called
    /\ args' = [args EXCEPT !.called = TRUE]
    /\ result' = <<upstream_port_of(args.site_id), upstream_port_of(args.other)>>
    /\ UNCHANGED <<engine, bulk, active_deployments, status, written, wpc,
                   response>>

\* two Engines made by create_site for two keys: their paths
call_paths ==
    /\ args.fn = "paths"
    /\ ~args.called
    /\ args' = [args EXCEPT !.called = TRUE]
    /\ result' = <<Paths(args.key), Paths(args.other)>>
    /\ UNCHANGED <<engine, bulk, active_deployments, status, written, wpc,
                   response>>

call_select ==
    /\ args.fn = "_select_compose_template"
    /\ ~args.called
    /\ args' = [args EXCEPT !.called = TRUE]
    /\ result' = _select_compose_template
    /\ UNCHANGED <<engine, bulk, active_deployments, status, written, wpc,
                   response>>

\* generate_compose_file with an existing template of a supported runtime
call_generate ==
    /\ args.fn = "generate_compose_file"
    /\ ~args.called
    /\ args' = [args EXCEPT !.called = TRUE]
    /\ result' = render(args.template)
    /\ UNCHANGED <<engine, bulk, active_deployments, status, written, wpc,
                   response>>

call_rbac ==
    /\ args.fn = "RBAC"
    /\ ~args.called
    /\ args' = [args EXCEPT !.called = TRUE]
    /\ result' = [is_superadmin |-> is_superadmin(args.user),
                  is_admin |-> is_admin(args.user),
                  can_access_domain |->
                      can_access_domain(args.user, args.owner)]
    /\ UNCHANGED <<engine, bulk, active_deployments, status, written, wpc,
                   response>>

\* the arguments of one call; the Engine of the call runs nothing
InitPure ==
    /\ \/ /\ args \in [fn : {"__init__"}, called : {FALSE},
                       site_id : 0..MaxSiteId, other : 0..MaxSiteId]
          /\ runtime = "node"
          /\ boilerplate = "blank"
          /\ site_id = 1
       \/ /\ args \in [fn : {"paths"}, called : {FALSE},
                       key : DomainIds \X SiteIds,
                       other : DomainIds \X SiteIds]
          /\ args.key[2] # args.other[2]
          /\ runtime = "node"
          /\ boilerplate = "blank"
          /\ site_id = 1
       \/ /\ args = [fn |-> "_select_compose_template", called |-> FALSE]
          /\ runtime \in Runtimes \cup {"PHP", "static", ""}
          /\ boilerplate \in Boilerplates \cup {"WordPress", "laravel"}
          /\ site_id = 1
       \/ /\ args \in [fn : {"generate_compose_file"}, called : {FALSE},
                       template : Templates]
          /\ runtime \in SupportedRuntimes
          /\ boilerplate \in Boilerplates
          /\ site_id \in SiteIds
       \/ /\ args \in [fn : {"RBAC"}, called : {FALSE},
                       user : [role : Roles, user_id : UserIds],
                       owner : Owners]
          /\ runtime = "node"
          /\ boilerplate = "blank"
          /\ site_id = 1
    /\ template_exists = TRUE
    /\ existing = FALSE
    /\ caller = "none"
    /\ deployment_phase = "initializing"
    /\ deployment_progress = 0
    /\ deployment_logs = <<>>
    /\ progress_dropped = FALSE
    /\ site_dir_exists = FALSE
    /\ scaffold = "absent"
    /\ compose_file = NoManifest
    /\ nginx_available = NoConf
    /\ nginx_enabled = "absent"
    /\ container_running = FALSE
    /\ nginx_written = FALSE
    /\ nginx_reloads = 0
    /\ pc = Done
    /\ lines_read = 0
    /\ line = ""
    /\ attempt = 0
    /\ elapsed = 0
    /\ exc = ""
    /\ trace = <<>>
    /\ step_failed = {}
    /\ start_ret = "none"
    /\ health_ret = "none"
    /\ reload_ret = "none"
    /\ deploy_ret = "none"
    /\ dpc = Done
    /\ errors = <<>>
    /\ pattern = 0
    /\ stop_ret = "none"
    /\ destroy_ret = "none"
    /\ calls = 0
    /\ prev = NoCall
    /\ stop_obs = NoStop
    /\ probe = NoProbe
    /\ validated = "none"
    /\ migrate_ret = "none"
    /\ NoBulk
    /\ active_deployments = {}
    /\ status = "none"
    /\ written = <<>>
    /\ wpc = Done
    /\ response = NoResponse
    /\ result = "none"

NextPure == call_init \/ call_paths \/ call_select \/ call_generate
            \/ call_rbac

SpecPure == InitPure /\ [][NextPure]_vars

(* --------------------- claims on single functions --------------------- *)

\* C25: two Engines made for distinct registry keys write no path in
\* common: their site directories, manifests, data directories and proxy
\* config paths all differ.
C25_PathsExclusive ==
    args.fn = "paths" /\ args.called /\ args.key # args.other
        => \A f, g \in DOMAIN result[1] : result[1][f] # result[2][g]

\* C26: the Template Resolver returns the wordpress template exactly for
\* runtime php with boilerplate wordpress, the template of the runtime for
\* every other pair with runtime node, python or php, and raises the
\* unknown-runtime error exactly for the runtimes outside those three.
C26_TemplateByRuntimeAndBoilerplate ==
    args.fn = "_select_compose_template" /\ args.called
        => /\ result = "docker-compose.wordpress.tpl"
                <=> (runtime = "php" /\ boilerplate = "wordpress")
           /\ runtime \in {"node", "python", "php"}
                 /\ ~(runtime = "php" /\ boilerplate = "wordpress")
                => result = [node |-> "docker-compose.node.tpl",
                             python |-> "docker-compose.python.tpl",
                             php |-> "docker-compose.php.tpl"][runtime]
           /\ result = "ValueError"
                <=> runtime \notin {"node", "python", "php"}

\* the resolver was called for php with wordpress and for an unknown
\* runtime with wordpress
C26_Witness ==
    /\ args.fn = "_select_compose_template"
    /\ args.called
    /\ boilerplate = "wordpress"
    /\ \/ runtime = "php" /\ result = "docker-compose.wordpress.tpl"
       \/ runtime = "ruby" /\ result = "ValueError"

C28_NoPlaceholderLeft ==
    args.fn = "generate_compose_file" /\ args.called
        => /\ Len(result) = Len(args.template)
           /\ \A i \in DOMAIN result :
                 /\ \A p \in DOMAIN Placeholders : result[i] # Placeholders[p]
                 /\ args.template[i] = "{{CONTAINER_PORT}}"
                      => result[i] = IF runtime = "php" THEN "80" ELSE "3000"
                 /\ args.template[i] = "text" => result[i] = "text"

\* a php manifest was written from a template with the two port tokens
C28_Witness ==
    /\ args.fn = "generate_compose_file"
    /\ args.called
    /\ runtime = "php"
    /\ args.template = <<"{{UPSTREAM_PORT}}", "{{CONTAINER_PORT}}">>
    /\ result = <<ToString(BASE_PORT + site_id), "80">>

\* C29: is_superadmin holds exactly for role superadmin, is_admin exactly
\* for roles admin and superadmin, and can_access_domain grants access
\* exactly to superadmins and to the owner of the domain.
C29_RoleChecksConsistent ==
    args.fn = "RBAC" /\ args.called
        => /\ result.is_superadmin <=> args.user.role = "superadmin"
           /\ result.is_admin <=> args.user.role \in {"admin", "superadmin"}
           /\ result.is_superadmin => result.is_admin
           /\ args.user.role = "user"
                => ~result.is_admin /\ ~result.is_superadmin
           /\ result.can_access_domain
                <=> (args.user.role = "superadmin"
                       \/ args.owner = args.user.user_id)

\* an admin who does not own the domain was refused, and a plain user who
\* owns it was let in
C29_Witness ==
    /\ args.fn = "RBAC"
    /\ args.called
    /\ \/ /\ args.user.role = "admin"
          /\ args.owner # 0
          /\ args.owner # args.user.user_id
          /\ ~result.can_access_domain
          /\ result.is_admin
       \/ /\ args.user.role = "user"
          /\ args.owner = args.user.user_id
          /\ result.can_access_domain

(* ----------------------------- delete_site ---------------------------- *)

\* the response codes of delete_site
Ok == 200
ServerError == 500

\* line 1350 without the test: the record is deleted and 200 answered
\* although destroy returned False
delete_1362_deletes_anyway ==
    /\ dpc = Done
    /\ destroy_ret = "False"
    /\ response = NoResponse
    /\ status' = "none"
    /\ response' = Ok
    /\ UNCHANGED <<engine, bulk, active_deployments, written, wpc, args,
                   result>>

\* if not engine.destroy(): ... return 500 (lines 1350-1362)
delete_1362 ==
    /\ dpc = Done
    /\ destroy_ret = "False"
    /\ response = NoResponse
    /\ response' = ServerError
    /\ UNCHANGED <<engine, bulk, active_deployments, status, written, wpc,
                   args, result>>

\* destroy returned True: delete('sites', 'id=%s', (site_id,)) and 200, or
\* the delete raises and the handler of line 1372 answers 500
delete_1368 ==
    /\ dpc = Done
    /\ destroy_ret = "True"
    /\ response = NoResponse
    /\ \/ /\ status' = "none"
          /\ response' = Ok
       \/ /\ response' = ServerError
          /\ UNCHANGED status
    /\ UNCHANGED <<engine, bulk, active_deployments, written, wpc, args,
                   result>>

\* one delete_site request: the Engine's destroy, then the record
NextDeleteSite ==
    \/ destroy_684 \/ stop_570 \/ stop_571 \/ stop_585 \/ stop_595
    \/ destroy_697 \/ destroy_711 \/ destroy_722 \/ destroy_495
    \/ destroy_497 \/ destroy_734 \/ destroy_744
    \/ delete_1362 \/ delete_1368

SpecDeleteSite == InitDestroy /\ [][NextDeleteSite]_vars

\* C30: delete_site deletes the record of the site only after destroy has
\* returned True, and then answers 200 if the delete went through; when
\* destroy returned False the record is kept and 500 is answered.
C30_RecordKeptUnlessDestroyed ==
    /\ [](status = "none" => destroy_ret = "True" /\ response = Ok)
    /\ [](response = Ok => status = "none")
    /\ [](response # NoResponse /\ destroy_ret # "True"
            => status # "none" /\ response = ServerError)
    /\ [][(status' # status)
            => (dpc = Done /\ destroy_ret = "True" /\ status' = "none")]_vars

\* destroy returned False (a critical step failed): 500 was answered and
\* the record is still there
C30_Witness ==
    /\ destroy_ret = "False"
    /\ errors # <<>>
    /\ response = ServerError
    /\ status = "active"

=============================================================================
